---- MODULE Spec2Model ----
(***************************************************************************)
(* SonicTag / DeepSeal: DSSS audio watermark transceiver.                  *)
(*                                                                         *)
(* The model follows src/src/sonictag/deepseal.py (DeepSeal.embed,         *)
(* DeepSeal.extract) and src/src/sonictag/fec.py (CRC-8, Hamming(7,4)).    *)
(* Python arrays are 0-based; sequences here are 1-based, so the element   *)
(* at Python index i is the element i+1 of the sequence.                   *)
(*                                                                         *)
(* Arithmetic is exact integer arithmetic.  Samples are integers.  The     *)
(* pre-emphasis filter [1, -0.95] is carried with the common factor 20     *)
(* ([20, -19]); every decision extract takes on filtered data is a sign,   *)
(* an argmax or a ratio test between two correlations that carry the same  *)
(* factor, so the factor does not change any decision.                     *)
(***************************************************************************)
EXTENDS Integers, Sequences, FiniteSets, TLC

(***************************************************************************)
(* Bounds of the model.                                                    *)
(***************************************************************************)
\* the ids the model embeds are IdTable[1 .. MaxIdIdx + 1]
MaxIdIdx == 4

\* how many samples of host follow the frame in the longest host
MaxHostTail == 3

\* the channel can invert the bit periods 0 .. MaxErrBit of the payload
MaxErrBit == 1

\* how many bits of one Hamming codeword the bit-level channel can flip
MaxFlips == 2

(***************************************************************************)
(* Generic helpers.                                                        *)
(***************************************************************************)
\* a function over 1..n as an explicit sequence (a tuple of values)
AsSeq(f) == SubSeq(f, 1, Len(f))

Abs(x) == IF x < 0 THEN -x ELSE x

Max2(a, b) == IF a > b THEN a ELSE b

Min2(a, b) == IF a < b THEN a ELSE b

\* a ^ b on integers 0 <= a, b < 2^n
RECURSIVE XorN(_, _, _)
XorN(a, b, n) ==
    IF n = 0 THEN 0
    ELSE (((a % 2) + (b % 2)) % 2) + 2 * XorN(a \div 2, b \div 2, n - 1)

\* the sequence s with the element at position p (1-based) replaced by 1 - s[p]
FlipAt(s, p) == AsSeq([i \in 1..Len(s) |-> IF i = p THEN 1 - s[i] ELSE s[i]])

(***************************************************************************)
(* Bit codec: DeepSeal._int_to_bits, DeepSeal._bits_to_int.                *)
(***************************************************************************)
\* 2^0 .. 2^30
pow2 == << 1, 2, 4, 8, 16, 32, 64, 128, 256, 512, 1024, 2048, 4096, 8192,
           16384, 32768, 65536, 131072, 262144, 524288, 1048576, 2097152,
           4194304, 8388608, 16777216, 33554432, 67108864, 134217728,
           268435456, 536870912, 1073741824 >>

\* val >> i, for 0 <= val < 2^31
shr(val, i) == IF i > 30 THEN 0 ELSE val \div pow2[i + 1]

\* the variant of int_to_bits with the least significant bit first
int_to_bits_lsb_first(val, num_bits) ==
    AsSeq([k \in 1..num_bits |-> shr(val, k - 1) % 2])

\* [(val >> i) & 1 for i in range(num_bits - 1, -1, -1)]
int_to_bits(val, num_bits) ==
    AsSeq([k \in 1..num_bits |-> shr(val, num_bits - k) % 2])

\* val = (val << 1) | int(bit > 0.5), folded over bits[lo..hi]: the value of
\* the left half shifted by the length of the right half, or the right half
RECURSIVE bits_to_int_range(_, _, _)
bits_to_int_range(bits, lo, hi) ==
    IF lo > hi THEN 0
    ELSE IF lo = hi THEN (IF bits[lo] > 0 THEN 1 ELSE 0)
    ELSE LET mid == (lo + hi) \div 2
         IN  bits_to_int_range(bits, lo, mid) * pow2[hi - mid + 1]
             + bits_to_int_range(bits, mid + 1, hi)

bits_to_int(bits) == bits_to_int_range(bits, 1, Len(bits))

(***************************************************************************)
(* Python integers are unbounded; the model checker's are 32-bit signed.   *)
(* The 32-bit payload value is an unsigned number up to 2^32 - 1, so it is *)
(* carried as two 16-bit halves <<hi, lo>>, value = hi * 65536 + lo.       *)
(***************************************************************************)
u32_of_int(v) == << v \div 65536, v % 65536 >>

\* _bits_to_int on a 32-bit array
bits_to_u32(bits) ==
    << bits_to_int(SubSeq(bits, 1, 16)), bits_to_int(SubSeq(bits, 17, 32)) >>

\* int(v).to_bytes(4, byteorder='big')
to_bytes4(u) == << u[1] \div 256, u[1] % 256, u[2] \div 256, u[2] % 256 >>

(***************************************************************************)
(* CRC-8: FEC.crc8, polynomial 0x07, initial value 0.                      *)
(***************************************************************************)
CrcPoly == 7

\* one pass of the inner loop: if crc & 0x80: crc = (crc << 1) ^ 0x07
\* else: crc <<= 1; then crc &= 0xFF
crc8_shift(crc) ==
    IF (crc \div 128) % 2 = 1
    THEN XorN((2 * crc) % 256, CrcPoly, 8)
    ELSE (2 * crc) % 256

RECURSIVE crc8_shifts(_, _)
crc8_shifts(crc, n) ==
    IF n = 0 THEN crc ELSE crc8_shift(crc8_shifts(crc, n - 1))

\* for _ in range(8): the inner loop, for every value of crc after crc ^= byte
crc8_inner == [crc \in 0..255 |-> crc8_shifts(crc, 8)]

\* crc after the first n bytes of data_bytes
RECURSIVE crc8_upto(_, _)
crc8_upto(data_bytes, n) ==
    IF n = 0 THEN 0
    ELSE crc8_inner[XorN(crc8_upto(data_bytes, n - 1), data_bytes[n], 8)]

\* the variant of crc8 that leaves the first byte out
crc8_skip_first(data_bytes) ==
    crc8_upto(Tail(data_bytes), Len(data_bytes) - 1)

crc8(data_bytes) == crc8_upto(data_bytes, Len(data_bytes))

(***************************************************************************)
(* Hamming(7,4): SystematicFEC matrices, FEC.encode_hamming,               *)
(* SystematicFEC.decode_hamming.                                           *)
(***************************************************************************)
G == << <<1, 0, 0, 0, 1, 1, 0>>,
        <<0, 1, 0, 0, 1, 0, 1>>,
        <<0, 0, 1, 0, 0, 1, 1>>,
        <<0, 0, 0, 1, 1, 1, 1>> >>

H == << <<1, 1, 0, 1, 1, 0, 0>>,
        <<1, 0, 1, 1, 0, 1, 0>>,
        <<0, 1, 1, 1, 0, 0, 1>> >>

\* the variant of syndrome_map that keeps the table of the base class FEC
\* (syndrome_to_idx, for its non-systematic H)
syndrome_map_base == [v \in 1..7 |->
    CASE v = 1 -> 0 [] v = 2 -> 1 [] v = 4 -> 2 [] v = 3 -> 3
      [] v = 6 -> 4 [] v = 7 -> 5 [] v = 5 -> 6]

\* syndrome value -> Python index of the bit to flip
syndrome_map == [v \in 1..7 |->
    CASE v = 3 -> 0 [] v = 5 -> 1 [] v = 6 -> 2 [] v = 7 -> 3
      [] v = 1 -> 4 [] v = 2 -> 5 [] v = 4 -> 6]

\* np.dot(nibble, G) % 2
encode_nibble(nibble) ==
    [c \in 1..7 |-> (nibble[1] * G[1][c] + nibble[2] * G[2][c]
                     + nibble[3] * G[3][c] + nibble[4] * G[4][c]) % 2]

\* FEC.encode_hamming raises ValueError: the length check of line 62, and
\* np.concatenate(encoded) of line 74, which raises ValueError ("need at least
\* one array to concatenate") when the loop appended no codeword
encode_raises(bits) == Len(bits) % 4 # 0 \/ Len(bits) \div 4 = 0

\* FEC.encode_hamming; the result "ValueError" stands for the raised error
encode_hamming(bits) ==
    IF encode_raises(bits) THEN "ValueError"
    ELSE AsSeq([k \in 1..(7 * (Len(bits) \div 4)) |->
            encode_nibble(SubSeq(bits, 4 * ((k - 1) \div 7) + 1,
                                       4 * ((k - 1) \div 7) + 4))[((k - 1) % 7) + 1]])

\* np.dot(H, block) % 2, then s0 + 2*s1 + 4*s2
syndrome_val(block) ==
    LET s(r) == (H[r][1] * block[1] + H[r][2] * block[2] + H[r][3] * block[3]
                 + H[r][4] * block[4] + H[r][5] * block[5] + H[r][6] * block[6]
                 + H[r][7] * block[7]) % 2
    IN  s(1) + 2 * s(2) + 4 * s(3)

\* one 7-bit block: correct the bit the syndrome names, keep the first 4 bits
decode_block(block) ==
    LET val == syndrome_val(block)
        corrected == IF val > 0 /\ val \in DOMAIN syndrome_map
                     THEN FlipAt(block, syndrome_map[val] + 1)
                     ELSE block
    IN  SubSeq(corrected, 1, 4)

\* SystematicFEC.decode_hamming raises ValueError: the length check of line
\* 163, and np.concatenate(decoded) of line 196 on an empty list
decode_raises(bits) == Len(bits) % 7 # 0 \/ Len(bits) \div 7 = 0

\* SystematicFEC.decode_hamming
decode_hamming(bits) ==
    IF decode_raises(bits) THEN "ValueError"
    ELSE AsSeq([k \in 1..(4 * (Len(bits) \div 7)) |->
            decode_block(SubSeq(bits, 7 * ((k - 1) \div 4) + 1,
                                      7 * ((k - 1) \div 4) + 7))[((k - 1) % 4) + 1]])

(***************************************************************************)
(* The base class FEC: its generator matrix, encode_hamming with that      *)
(* matrix, and its own decode_hamming.                                     *)
(***************************************************************************)
\* FEC.__init__: self.G
G_base == << <<1, 1, 0, 1, 0, 0, 0>>,
             <<0, 1, 1, 0, 1, 0, 0>>,
             <<1, 1, 1, 0, 0, 1, 0>>,
             <<1, 0, 1, 0, 0, 0, 1>> >>

\* FEC.encode_hamming on an object of the base class: np.dot(nibble, G) % 2
\* with the G of FEC.__init__
base_encode_hamming(bits) ==
    IF encode_raises(bits) THEN "ValueError"
    ELSE AsSeq([k \in 1..(7 * (Len(bits) \div 4)) |->
            LET n == 4 * ((k - 1) \div 7)
                c == ((k - 1) % 7) + 1
            IN  (bits[n + 1] * G_base[1][c] + bits[n + 2] * G_base[2][c]
                 + bits[n + 3] * G_base[3][c] + bits[n + 4] * G_base[4][c]) % 2])

\* FEC.decode_hamming: the loop computes the syndrome of each block and flips
\* the bit it names in its copy of the block, then ends in pass: nothing is
\* appended to decoded, and line 138 returns
\* np.concatenate(decoded) if decoded else np.array([], dtype=int)
base_decode_hamming(bits) ==
    IF Len(bits) % 7 # 0 THEN "ValueError" ELSE << >>

(***************************************************************************)
(* Pseudo-noise and interleaver tables.                                    *)
(*                                                                         *)
(* np.random.RandomState(s) is the Mersenne Twister MT19937 seeded with    *)
(* init_genrand(s).  randint(0, 2, size=n) takes the lowest bit of each of *)
(* the first n 32-bit outputs, so a shorter sequence is a prefix of a      *)
(* longer one; permutation(n) is a Fisher-Yates shuffle of 0..n-1 from     *)
(* i = n-1 down to 1 with masked rejection sampling.  The two tables below *)
(* are those outputs for the seeds the code uses.                          *)
(***************************************************************************)
\* DeepSeal.__init__: the public default seed
DefaultSeed == 42

\* RandomState(42).randint(0, 2, size=204)
randint_seed42 == <<
        0, 1, 0, 0, 0, 1, 0, 0, 0, 1, 0, 0, 0, 0, 1, 0, 1, 1, 1, 0, 1, 0, 1, 1, 1, 1, 1, 1, 1, 1, 0, 0, 1, 1,
        1, 0, 1, 0, 0, 0, 0, 0, 1, 1, 1, 1, 1, 0, 1, 1, 0, 1, 0, 1, 0, 1, 1, 0, 0, 0, 0, 0, 0, 0, 0, 1, 1, 0,
        1, 1, 1, 1, 0, 1, 0, 1, 1, 1, 0, 1, 0, 1, 0, 1, 0, 0, 1, 0, 1, 1, 1, 1, 1, 1, 1, 1, 1, 1, 1, 0, 0, 1,
        1, 1, 1, 1, 1, 1, 1, 0, 1, 0, 1, 1, 0, 1, 0, 1, 1, 0, 1, 0, 1, 0, 0, 1, 1, 0, 1, 1, 1, 0, 0, 0, 0, 0,
        0, 0, 0, 0, 1, 0, 1, 1, 1, 0, 0, 0, 0, 1, 0, 0, 0, 0, 0, 1, 0, 1, 0, 1, 0, 0, 1, 1, 1, 0, 1, 0, 0, 1,
        1, 0, 0, 1, 1, 1, 0, 0, 0, 0, 0, 0, 1, 0, 0, 0, 1, 0, 0, 1, 0, 0, 0, 0, 0, 1, 1, 1, 0, 0, 0, 1, 0, 0 >>

\* RandomState(s).randint(0, 2, size=16) for the other seeds of the model,
\* s being the unsigned 32-bit seed << hi, lo >>: the explicit seeds 0 and
\* 123 and the seeds of the keys "secret_A" and "secret_B"
randint_of(s) ==
    CASE s = << 0, 42 >> -> randint_seed42
      [] s = << 0, 0 >> ->
            << 0, 1, 1, 0, 1, 1, 1, 1, 1, 1, 1, 0, 0, 1, 0, 0 >>
      [] s = << 0, 123 >> ->
            << 0, 1, 0, 0, 0, 0, 0, 1, 1, 0, 1, 1, 0, 1, 0, 1 >>
      [] s = << 24020, 41785 >> ->
            << 1, 0, 1, 1, 0, 1, 1, 1, 1, 0, 1, 1, 1, 1, 1, 0 >>
      [] s = << 65306, 24040 >> ->
            << 0, 1, 1, 1, 1, 0, 0, 1, 0, 1, 1, 1, 0, 1, 1, 0 >>

\* local_rng = np.random.RandomState(self.seed);
\* noise = local_rng.randint(0, 2, size=length) * 2 - 1, from draw number
\* first + 1 of the generator on
pn_from(s, first, length) ==
    LET draws == randint_of(s)
    IN  AsSeq([i \in 1..length |-> draws[first + i] * 2 - 1])

\* DeepSeal.generate_pn_sequence on an object whose seed is s
generate_pn_sequence_of(s, length) == pn_from(s, 0, length)

\* DeepSeal.generate_pn_sequence on an object with the default seed
generate_pn_sequence(length) ==
    generate_pn_sequence_of(<< 0, DefaultSeed >>, length)

\* np.random.RandomState(0xDEADBEEF).permutation(70), values are Python indices
perm_indices == <<
        34, 30, 28, 67, 5, 16, 7, 15, 21, 1, 4, 10, 37, 22,
        20, 53, 56, 32, 41, 68, 61, 14, 43, 51, 62, 17, 52, 35,
        19, 6, 31, 12, 27, 23, 48, 42, 46, 45, 38, 3, 33, 65,
        11, 64, 25, 58, 2, 69, 54, 44, 8, 36, 40, 0, 50, 63,
        24, 47, 9, 55, 60, 39, 13, 26, 59, 49, 18, 29, 66, 57 >>

\* the variant of argsort that sorts in descending order
argsort_descending(p) ==
    [j \in 1..Len(p) |->
        (CHOOSE k \in 1..Len(p) :
            Cardinality({m \in 1..Len(p) : p[m] > p[k]}) = j - 1) - 1]

\* np.argsort(p): position j holds the Python index of the j-th smallest
\* element of p (ties cannot happen in a permutation)
argsort(p) ==
    [j \in 1..Len(p) |->
        (CHOOSE k \in 1..Len(p) :
            Cardinality({m \in 1..Len(p) : p[m] < p[k]}) = j - 1) - 1]

\* the variant of inv_indices that applies the permutation a second time
inv_indices_forward == perm_indices

\* extract: inv_indices = np.argsort(perm_indices)
inv_indices == argsort(perm_indices)

\* numpy fancy indexing a[idx] with 0-based idx
take(a, idx) == AsSeq([k \in 1..Len(idx) |-> a[idx[k] + 1]])

(***************************************************************************)
(* Frame construction: the bit part of DeepSeal.embed.                     *)
(***************************************************************************)
\* DeepSeal.__init__: Barker-13 padded with three zeros
preamble_bits == <<1, 1, 1, 1, 1, 0, 0, 1, 1, 0, 1, 0, 1, 0, 0, 0>>

\* embed: the capacity of the id field
IdLimit == 268435456

\* embed: version = 1
ProtocolVersion == 1

\* final_id = (version << 28) | watermark_id, for watermark_id < 2^28
final_id_of(watermark_id) == ProtocolVersion * IdLimit + watermark_id

\* payload_bits ++ crc_bits (40 bits)
data_to_encode(watermark_id) ==
    LET final_id == final_id_of(watermark_id)
    IN  int_to_bits(final_id, 32) \o int_to_bits(crc8(to_bytes4(u32_of_int(final_id))), 8)

\* encoded_bits[perm_indices]
interleaved_bits(watermark_id) ==
    take(encode_hamming(data_to_encode(watermark_id)), perm_indices)

\* the variant of full_message_bits that leaves the trailer out
full_message_bits_no_trailer(watermark_id) ==
    preamble_bits \o interleaved_bits(watermark_id)

\* np.concatenate([preamble_bits, interleaved_bits, preamble_bits])
full_message_bits(watermark_id) ==
    preamble_bits \o interleaved_bits(watermark_id) \o preamble_bits

(***************************************************************************)
(* The tail of DeepSeal.extract: de-interleave, FEC decode, CRC gate.      *)
(***************************************************************************)
\* the value extract returns for "not found"
None == -1

\* the variant of strip_version that forgets the mask
strip_version_unmasked(extracted_id) == extracted_id[1] * 65536 + extracted_id[2]

\* lines 471-472: version = (extracted_id >> 28) & 0xF is dropped,
\* content_id = extracted_id & 0x0FFFFFFF is returned
strip_version(extracted_id) == (extracted_id[1] % 4096) * 65536 + extracted_id[2]

\* the variant of verify_crc that returns the id whatever the CRC says
verify_crc_accept_all(extracted_id, extracted_crc) == strip_version(extracted_id)

\* lines 464-478: recompute the CRC over the 4 big-endian bytes of the
\* decoded payload and compare it with the decoded CRC
verify_crc(extracted_id, extracted_crc) ==
    IF crc8(to_bytes4(extracted_id)) = extracted_crc
    THEN strip_version(extracted_id)
    ELSE None

\* lines 445-453: raw_bits[inv_indices], then fec.decode_hamming
deinterleave_decode(raw_bits) == decode_hamming(take(raw_bits, inv_indices))

\* lines 455-478: split the decoded bits, rebuild the integers, CRC gate
crc_gate(decoded_bits) ==
    LET extracted_id == bits_to_u32(SubSeq(decoded_bits, 1, 32))
        extracted_crc == bits_to_int(SubSeq(decoded_bits, 33, 40))
    IN  IF Len(decoded_bits) # 40
        THEN [decoded_bits |-> decoded_bits, extracted_id |-> << 0, 0 >>,
              extracted_crc |-> 0, ret |-> None]
        ELSE [decoded_bits |-> decoded_bits,
              extracted_id |-> extracted_id,
              extracted_crc |-> extracted_crc,
              ret |-> verify_crc(extracted_id, extracted_crc)]

\* lines 445-478: from the demodulated bits to the returned value
decode_bits(raw_bits) == crc_gate(deinterleave_decode(raw_bits))

(***************************************************************************)
(* Signals.  A signal is a sequence of integer samples.                    *)
(***************************************************************************)
\* Python slice x[a:b] with 0 <= a (b may exceed len(x))
slice(x, a, b) == SubSeq(x, a + 1, Min2(b, Len(x)))

\* x[n] for n >= 1, zero before the start (initial filter state)
at(x, n) == IF n >= 1 THEN x[n] ELSE 0

\* x[lo] + ... + x[hi], summed by halves
RECURSIVE sum_range(_, _, _)
sum_range(x, lo, hi) ==
    IF lo > hi THEN 0
    ELSE IF lo = hi THEN x[lo]
    ELSE sum_range(x, lo, (lo + hi) \div 2)
         + sum_range(x, ((lo + hi) \div 2) + 1, hi)

negate(x) == AsSeq([n \in 1..Len(x) |-> 0 - x[n]])

zeros(n) == AsSeq([i \in 1..n |-> 0])

(***************************************************************************)
(* Signal shaping.                                                         *)
(***************************************************************************)
\* scipy.signal.lfilter([1, -0.95], [1], x), carried with the factor 20
preemphasis(x) ==
    AsSeq([n \in 1..Len(x) |-> 20 * x[n] - 19 * at(x, n - 1)])

\* DeepSeal._apply_bandpass.  butter(2, [low, high], btype='band') gives
\* b = b0 * [1, 0, -2, 0, 1] and a recursive part whose coefficients are
\* floats that depend on sample_rate.  The model keeps the feed-forward
\* part (a causal linear filter with zeros at DC and Nyquist) and leaves
\* the recursive part and the gain b0 out.
apply_bandpass(x) ==
    AsSeq([n \in 1..Len(x) |-> x[n] - 2 * at(x, n - 2) + at(x, n - 4)])

\* DeepSeal._normalize_signal: (audio - mean) / std, or audio - mean when
\* std < 1e-9.  Carried with the positive factor len(audio) (and without the
\* division by std, another positive factor).
normalize_signal(x) ==
    IF Len(x) = 0 THEN x
    ELSE LET total == sum_range(x, 1, Len(x))
         IN  AsSeq([n \in 1..Len(x) |-> Len(x) * x[n] - total])

\* the pre-processing extract applies to the input, the reference and the
\* payload PN: band-pass in telecom mode, pre-emphasis otherwise
pre_filter(x, telecom_mode) ==
    IF telecom_mode THEN apply_bandpass(x) ELSE preemphasis(x)

\* DeepSeal._shape_spectrum followed by the division by np.std.  The hosts
\* of this model have a flat magnitude spectrum inside the frame (silence,
\* or one click): smoothed_mag is then a constant and shaped_noise is noise
\* times a positive constant.
shape_spectrum(noise, audio) == noise

\* DeepSeal._compute_masking_threshold.  For a frame shorter than half the
\* 1024-sample window, convolve(..., mode='same') sums the whole frame at
\* every index: the envelope is one positive constant.  It is the unit of
\* amplitude of the model.
compute_masking_threshold(audio) == AsSeq([n \in 1..Len(audio) |-> 1])

(***************************************************************************)
(* DeepSeal.embed.                                                         *)
(***************************************************************************)
\* np.repeat(bits, chip_rate) * 2 - 1, times the PN sequence
spread(bits, chip_rate, pn_sequence) ==
    AsSeq([i \in 1..(Len(bits) * chip_rate) |->
        (bits[((i - 1) \div chip_rate) + 1] * 2 - 1) * pn_sequence[i]])

\* lines 214-227: the spread-spectrum signal of the frame
spread_signal_of(watermark_id, chip_rate, telecom_mode) ==
    LET bits == full_message_bits(watermark_id)
        total_chips == Len(bits) * chip_rate
        s == spread(bits, chip_rate, generate_pn_sequence(total_chips))
    IN  IF telecom_mode THEN apply_bandpass(s) ELSE s

\* lines 246-247: watermarked_audio = audio.copy();
\* watermarked_audio[:len(spread_signal)] += weighted_watermark
inject(audio, weighted_watermark) ==
    AsSeq([n \in 1..Len(audio) |->
        IF n <= Len(weighted_watermark)
        THEN audio[n] + weighted_watermark[n] ELSE audio[n]])

\* the variant of host_after_embed that adds the watermark in place
host_after_embed_in_place(audio, watermarked_audio) == watermarked_audio

\* what embed leaves in the caller's array: it works on a copy (line 246)
host_after_embed(audio, watermarked_audio) == audio

\* the variant of id_is_valid that lets 2^28 itself through
id_is_valid_inclusive(watermark_id) == watermark_id <= IdLimit

\* line 188: if watermark_id >= (1 << 28): raise ValueError
id_is_valid(watermark_id) == watermark_id < IdLimit

\* the whole of embed; status is "ok", or the ValueError that is raised
embed(audio, watermark_id, chip_rate, telecom_mode) ==
    IF ~id_is_valid(watermark_id)
    THEN [status |-> "InvalidId", audio |-> <<>>, needed |-> 0]
    ELSE LET spread_signal ==
                 spread_signal_of(watermark_id, chip_rate, telecom_mode)
             L == Len(spread_signal)
         IN  IF Len(audio) < L
             THEN [status |-> "HostTooShort", audio |-> <<>>, needed |-> L]
             ELSE LET shaped_signal ==
                          shape_spectrum(spread_signal, slice(audio, 0, L))
                      masking_envelope ==
                          compute_masking_threshold(slice(audio, 0, L))
                      weighted_watermark ==
                          [n \in 1..L |-> shaped_signal[n] * masking_envelope[n]]
                  IN  [status |-> "ok",
                       audio |-> inject(audio, weighted_watermark),
                       needed |-> L]

(***************************************************************************)
(* DeepSeal._attempt_sync: scipy.signal.correlate(chunk, ref, 'valid'),    *)
(* then the first index of the largest magnitude and the signed value      *)
(* there.  When the chunk is shorter than the reference scipy swaps the    *)
(* operands of the underlying convolution; the result then has             *)
(* len(ref) - len(chunk) + 1 entries.                                      *)
(***************************************************************************)
\* sum over n = lo..hi of a[ao + n] * b[bo + n], summed by halves
RECURSIVE dot_range(_, _, _, _, _, _)
dot_range(a, ao, b, bo, lo, hi) ==
    IF lo > hi THEN 0
    ELSE IF lo = hi THEN a[ao + lo] * b[bo + lo]
    ELSE dot_range(a, ao, b, bo, lo, (lo + hi) \div 2)
         + dot_range(a, ao, b, bo, ((lo + hi) \div 2) + 1, hi)

\* sum over n = 1..m of a[ao + n] * b[bo + n]
dot(a, ao, b, bo, m) == dot_range(a, ao, b, bo, 1, m)

\* correlation[k], k a Python index
corr_at(chunk, ref, k) ==
    IF Len(chunk) >= Len(ref)
    THEN dot(chunk, k, ref, 0, Len(ref))
    ELSE dot(ref, Len(ref) - Len(chunk) - k, chunk, 0, Len(chunk))

\* the whole correlation array (element k + 1 is correlation[k])
correlate_valid(chunk, ref) ==
    AsSeq([n \in 1..(Abs(Len(chunk) - Len(ref)) + 1) |-> corr_at(chunk, ref, n - 1)])

\* np.argmax(np.abs(c)) on c[lo..hi] (1-based): the first largest wins.
\* The range is split in halves; on a tie the left half wins.
RECURSIVE argmax_abs(_, _, _)
argmax_abs(c, lo, hi) ==
    IF lo = hi THEN lo
    ELSE LET a == argmax_abs(c, lo, (lo + hi) \div 2)
             b == argmax_abs(c, ((lo + hi) \div 2) + 1, hi)
         IN  IF Abs(c[b]) > Abs(c[a]) THEN b ELSE a

\* returns << peak_idx, peak_val >>, peak_idx a Python index
attempt_sync(audio_chunk, reference_preamble) ==
    LET correlation == correlate_valid(audio_chunk, reference_preamble)
        peak == argmax_abs(correlation, 1, Len(correlation))
    IN  << peak - 1, correlation[peak] >>

\* the variant of polarity_of that ignores the sign of the peak
polarity_always_positive(val) == 1

\* polarity_sign = 1.0 if val > 0 else -1.0
polarity_of(val) == IF val > 0 THEN 1 ELSE -1

(***************************************************************************)
(* DeepSeal.extract: constants.                                            *)
(***************************************************************************)
\* encoded_payload_len = 70
encoded_payload_len == 70

\* search_len = preamble_len_chips * 2 + 44100 * 2
SearchSampleRate == 44100

\* pass 1+: radius = 2048 around the mapped start
ResyncRadius == 2048

\* final resync: radius = 1024 around the predicted start
FinalRadius == 1024

\* the reference preamble waveform, pre-processed like the input
reference_preamble_of(chip_rate, telecom_mode) ==
    pre_filter(spread(preamble_bits, chip_rate,
                      generate_pn_sequence(Len(preamble_bits) * chip_rate)),
               telecom_mode)

(***************************************************************************)
(* Resampling (lines 389-393): np.interp(linspace(0, 1, new_len),          *)
(* linspace(0, 1, old_len), current_audio).  New sample j (Python index)   *)
(* lies at old position j * (old_len - 1) / (new_len - 1).  The result is  *)
(* carried with the positive factor (new_len - 1), which keeps it integer. *)
(***************************************************************************)
resample_scale(new_len) == IF new_len >= 2 THEN new_len - 1 ELSE 1

resample(current_audio, new_len) ==
    LET old_len == Len(current_audio)
        D == resample_scale(new_len)
        val(j) == LET num == j * (old_len - 1)
                      k == num \div D
                      r == num % D
                  IN  IF r = 0 THEN current_audio[k + 1] * D
                      ELSE current_audio[k + 1] * D
                           + (current_audio[k + 2] - current_audio[k + 1]) * r
    IN  AsSeq([n \in 1..new_len |-> val(n - 1)])

\* the variant of trailer_radius with a radius factor of 1
trailer_radius_whole(pass_num, nominal_dist) == nominal_dist

\* lines 361-362: radius = int(nominal_dist * radius_factor), the factor
\* being 0.1 on pass 0 and 0.01 on the later passes
trailer_radius(pass_num, nominal_dist) ==
    IF pass_num = 0 THEN nominal_dist \div 10 ELSE nominal_dist \div 100

(***************************************************************************)
(* One pass of the speed-correction loop (lines 316-396).                  *)
(* st holds the locals of the call: start_idx and start_val of the coarse  *)
(* sync, current_audio with its scale factor den (true samples =           *)
(* current_audio / den), total_speed_adjustment as the fraction            *)
(* speed_num / speed_den, and the bookkeeping of the loop (passes run,     *)
(* resamplings done, per pass whether a trailer was accepted, the measured *)
(* distances of the passes that resampled (dists) and of all passes that   *)
(* computed a speed (measured), the audio lengths, the start index of the  *)
(* last pass).                                                             *)
(***************************************************************************)
speed_pass(pass_num, st, chip_rate, telecom_mode) ==
    LET current_audio == st.current_audio
        start_idx == st.start_idx
        start_val == st.start_val
        reference_preamble == reference_preamble_of(chip_rate, telecom_mode)
        preamble_len_chips == Len(preamble_bits) * chip_rate
        \* pass 1+: find the start again on the resampled audio
        expected_start == (start_idx * st.speed_num) \div st.speed_den
        s_start == Max2(0, expected_start - ResyncRadius)
        s_end == Min2(Len(current_audio),
                      expected_start + ResyncRadius + preamble_len_chips)
        s_idx == IF pass_num = 0 THEN start_idx
                 ELSE s_start + attempt_sync(slice(current_audio, s_start, s_end),
                                             reference_preamble)[1]
        \* pass 0: the middle 50% of the reference, later: the full reference
        mid == Len(reference_preamble) \div 2
        half_width == Len(reference_preamble) \div 4
        search_ref == IF pass_num = 0
                      THEN slice(reference_preamble, mid - half_width, mid + half_width)
                      ELSE reference_preamble
        ref_offset == IF pass_num = 0 THEN mid - half_width ELSE 0
        nominal_dist == (16 + encoded_payload_len) * chip_rate
        expected_trailer == s_idx + nominal_dist
        radius == trailer_radius(pass_num, nominal_dist)
        t_start == Max2(0, expected_trailer - radius)
        t_end == Min2(Len(current_audio), expected_trailer + radius + preamble_len_chips)
        fits == t_end > t_start + Len(search_ref)
        t_sync == attempt_sync(slice(current_audio, t_start, t_end), search_ref)
        \* abs(t_val) > abs(start_val) * 0.1, start_val being on scale 1
        accepted == fits /\ 10 * Abs(t_sync[2]) > Abs(start_val) * st.den
        found_trailer_idx == t_start + t_sync[1] - ref_offset
        actual_dist == found_trailer_idx - s_idx
        \* abs(nominal_dist / actual_dist - 1.0) < 0.0001
        converged == \/ ~accepted
                     \/ /\ actual_dist > 0
                        /\ 10000 * Abs(nominal_dist - actual_dist) < actual_dist
        new_len == (Len(current_audio) * nominal_dist) \div actual_dist
        measured == IF accepted THEN st.measured \o << actual_dist >>
                    ELSE st.measured
    IN  IF converged
        THEN [st EXCEPT !.done = TRUE, !.passes = pass_num + 1,
                        !.trailer_accepted = st.trailer_accepted \o << accepted >>,
                        !.measured = measured,
                        !.s_idx = s_idx]
        ELSE IF actual_dist <= 0
        \* nominal_dist / 0 is inf and int(inf) raises OverflowError; a
        \* negative speed gives a negative new_len and linspace raises
        THEN [st EXCEPT !.done = TRUE, !.raised = TRUE, !.passes = pass_num + 1,
                        !.trailer_accepted = st.trailer_accepted \o << accepted >>,
                        !.dists = st.dists \o << actual_dist >>,
                        !.measured = measured,
                        !.s_idx = s_idx]
        ELSE [st EXCEPT !.current_audio = resample(current_audio, new_len),
                        !.den = st.den * resample_scale(new_len),
                        !.speed_num = st.speed_num * nominal_dist,
                        !.speed_den = st.speed_den * actual_dist,
                        !.passes = pass_num + 1,
                        !.resamples = st.resamples + 1,
                        !.trailer_accepted = st.trailer_accepted \o << accepted >>,
                        !.dists = st.dists \o << actual_dist >>,
                        !.lens = st.lens \o << new_len >>,
                        !.measured = measured,
                        !.s_idx = s_idx]

(***************************************************************************)
(* DeepSeal.extract, in the three stages the model steps through:          *)
(*   extract_start   lines 274-314: pre-processing, reference, coarse sync *)
(*   speed_pass      lines 316-396: one pass of the speed loop             *)
(*   extract_finish  lines 406-478: final resync, demodulation, decoding   *)
(***************************************************************************)
\* the locals of the call after the coarse sync; st is the loop state
extract_start(audio, chip_rate, telecom_mode) ==
    LET processed_audio == IF telecom_mode
                           THEN normalize_signal(apply_bandpass(audio))
                           ELSE preemphasis(audio)
        preamble_len_chips == Len(preamble_bits) * chip_rate
        reference_preamble == reference_preamble_of(chip_rate, telecom_mode)
        search_len == preamble_len_chips * 2 + SearchSampleRate * 2
        search_window ==
            slice(processed_audio, 0, Min2(Len(processed_audio), search_len))
        sync0 == attempt_sync(search_window, reference_preamble)
    IN  [start_idx |-> sync0[1], start_val |-> sync0[2],
         current_audio |-> processed_audio, den |-> 1,
         speed_num |-> 1, speed_den |-> 1,
         done |-> FALSE, raised |-> FALSE,
         passes |-> 0, resamples |-> 0,
         trailer_accepted |-> << >>, dists |-> << >>,
         lens |-> << Len(processed_audio) >>, s_idx |-> sync0[1],
         search_len |-> Len(search_window), measured |-> << >>]

\* lines 432-443: chip products times the polarity sign, summed per bit
demodulate(payload_audio, payload_pn, polarity_sign, chip_rate) ==
    AsSeq([i \in 1..encoded_payload_len |->
        IF polarity_sign * dot(payload_audio, (i - 1) * chip_rate,
                               payload_pn, (i - 1) * chip_rate, chip_rate) > 0
        THEN 1 ELSE 0])

no_bits == [decoded_bits |-> << >>, extracted_id |-> << 0, 0 >>,
            extracted_crc |-> 0, ret |-> None]

\* the variant of payload_window_fits without the check of line 420
payload_window_always_fits(final_start_index, final_len, chip_rate) == TRUE

\* lines 417-421: the negation of
\* final_start_index + payload_start_chip + total_payload_chips > len(final_audio)
payload_window_fits(final_start_index, final_len, chip_rate) ==
    LET payload_start_chip == Len(preamble_bits) * chip_rate
        total_payload_chips == encoded_payload_len * chip_rate
    IN  ~(final_start_index + payload_start_chip + total_payload_chips > final_len)

\* The result record of extract: the returned value (ret, None for "not
\* found"), whether an exception left the call (raised), and the locals the
\* properties speak about.
extract_finish(st, chip_rate, telecom_mode) ==
    LET final_audio == st.current_audio
        preamble_len_chips == Len(preamble_bits) * chip_rate
        full_pn_sequence ==
            generate_pn_sequence(preamble_len_chips + encoded_payload_len * chip_rate)
        reference_preamble == reference_preamble_of(chip_rate, telecom_mode)
        \* final resync
        pred_start == (st.start_idx * st.speed_num) \div st.speed_den
        s_start == Max2(0, pred_start - FinalRadius)
        s_end == Min2(Len(final_audio), pred_start + FinalRadius + preamble_len_chips)
        sync1 == attempt_sync(slice(final_audio, s_start, s_end), reference_preamble)
        final_start_index == s_start + sync1[1]
        polarity_sign == polarity_of(sync1[2])
        \* 2. demodulation
        payload_start_chip == Len(preamble_bits) * chip_rate
        total_payload_chips == encoded_payload_len * chip_rate
        window_fits ==
            payload_window_fits(final_start_index, Len(final_audio), chip_rate)
        payload_audio == slice(final_audio, final_start_index + payload_start_chip,
                               final_start_index + payload_start_chip + total_payload_chips)
        payload_pn == pre_filter(slice(full_pn_sequence, payload_start_chip,
                                       payload_start_chip + total_payload_chips),
                                 telecom_mode)
        raw_bits == demodulate(payload_audio, payload_pn, polarity_sign, chip_rate)
        \* 3.-5. de-interleave, FEC, CRC
        out == decode_bits(raw_bits)
    IN  IF st.raised
        THEN [raised |-> TRUE, ret |-> None, window_fits |-> FALSE,
              final_start_index |-> 0, final_val |-> 0, polarity_sign |-> 0,
              final_len |-> Len(final_audio), payload_len |-> 0,
              raw_bits |-> << >>, bits |-> no_bits]
        ELSE IF ~window_fits
        THEN [raised |-> FALSE, ret |-> None, window_fits |-> FALSE,
              final_start_index |-> final_start_index, final_val |-> sync1[2],
              polarity_sign |-> polarity_sign,
              final_len |-> Len(final_audio), payload_len |-> 0,
              raw_bits |-> << >>, bits |-> no_bits]
        ELSE IF Len(payload_audio) # Len(payload_pn)
        \* line 434: payload_audio * payload_pn raises ValueError when the
        \* two arrays differ in length
        THEN [raised |-> TRUE, ret |-> None, window_fits |-> TRUE,
              final_start_index |-> final_start_index, final_val |-> sync1[2],
              polarity_sign |-> polarity_sign,
              final_len |-> Len(final_audio),
              payload_len |-> Len(payload_audio),
              raw_bits |-> << >>, bits |-> no_bits]
        ELSE [raised |-> FALSE, ret |-> out.ret, window_fits |-> TRUE,
              final_start_index |-> final_start_index, final_val |-> sync1[2],
              polarity_sign |-> polarity_sign,
              final_len |-> Len(final_audio),
              payload_len |-> Len(payload_audio),
              raw_bits |-> raw_bits, bits |-> out]

(***************************************************************************)
(* The state machine.  One DeepSeal object (chip_rate, telecom_mode, the   *)
(* default seed), a caller that embeds an id into a host and hands the     *)
(* result to a channel, and a caller that runs extract on what was         *)
(* recorded.  extract is stepped through its stages; no other action is    *)
(* enabled while a call is in progress.                                    *)
(***************************************************************************)
VARIABLES
    chip_rate,      \* DeepSeal.chip_rate
    telecom_mode,   \* DeepSeal.telecom_mode
    audio,          \* the caller's host array
    audio_before,   \* the host array as it was when embed was called
    watermark_id,   \* the id given to embed
    embed_ret,      \* what embed returned or raised
    rx,             \* the audio given to extract
    errs,           \* the bit positions the channel has inverted
    st,             \* the locals of the extract call in progress
    extract_ret,    \* what extract returned
    prev_ret,       \* what extract returned on the signal before its inversion
    inverted,       \* rx is the negation of the signal of prev_ret
    pc,             \* where the callers are
    data,           \* bit level: the data bits
    word,           \* bit level: the coded bits on the wire
    perrs,          \* bit level: the decoded payload bits that were flipped
    result,         \* bit level: the outcome of the decoder
    sample_rate,    \* DeepSeal.sample_rate
    seed,           \* DeepSeal.seed, an unsigned 32-bit number << hi, lo >>
    rng,            \* DeepSeal.rng: how many values were drawn from it
    ctor,           \* the arguments DeepSeal was constructed with
    pn_calls,       \* the generate_pn_sequence calls made so far
    buffer,         \* RealTimeInjector.buffer
    stream_in,      \* the chunks the input stream has not yielded yet
    stream_out,     \* the chunks process_stream has yielded
    stream_calls,   \* how many times process_stream was called on the injector
    thr,            \* two calls running on one DeepSeal object
    web             \* the web application: the AudioTask row, the worker, the queue

vars == << chip_rate, telecom_mode, audio, audio_before, watermark_id,
           embed_ret, rx, errs, st, extract_ret, prev_ret, inverted, pc,
           data, word, perrs, result,
           sample_rate, seed, rng, ctor, pn_calls,
           buffer, stream_in, stream_out, stream_calls, thr, web >>

\* __init__(seed=None, key=None, ..., sample_rate=44100, ...)
DefaultSampleRate == 44100

\* a sample rate small enough for 2 * sample_rate samples to be fewer than a
\* recording of the model
SmallSampleRate == 8

\* The DeepSeal objects of the model, << chip_rate, telecom_mode,
\* sample_rate >>.  Telecom
\* mode is built at chip rate 1 only: at chip rate 2 the integer samples of a
\* twice resampled telecom signal leave the 32-bit range of the model
\* checker's integers.
Configs == { << 1, FALSE, DefaultSampleRate >>, << 1, TRUE, DefaultSampleRate >>,
             << 2, FALSE, DefaultSampleRate >>, << 1, FALSE, SmallSampleRate >> }

\* the ids of the tests (123456789, 0x1FFFFFFF, 0xABCDEF) and the edges
IdTable == << 0, 123456789, 268435455, 268435456, 536870911,
              1, 11259375, 268435457 >>

Ids == { IdTable[i + 1] : i \in 0..MaxIdIdx }

\* the samples of a frame: len(full_message_bits) * chip_rate
frame_len(cr) == (2 * Len(preamble_bits) + encoded_payload_len) * cr

\* a host sample after the frame
tail_sample(n) == (n % 3) + 1

\* A click inside the frame, in units of the watermark amplitude.  embed
\* scales the watermark by the RMS envelope of the frame, 10^(-25/20)
\* (10^(-15/20) in telecom mode) times |click| / 32, after dividing it by
\* its standard deviation.
ClickAmp(tm) == IF tm THEN 440 ELSE 563

\* the hosts: a silent frame or a frame with one click, then the tail
Host(kind, len, cr, tm) ==
    AsSeq([n \in 1..len |->
        IF n > frame_len(cr) THEN tail_sample(n)
        ELSE IF kind = "click" /\ n = 2 * cr + 1 THEN ClickAmp(tm)
        ELSE 0])

HostLens(cr) == { frame_len(cr) - 1, frame_len(cr), frame_len(cr) + MaxHostTail }

no_embed == [status |-> "none", audio |-> << >>, needed |-> 0]

no_st == [start_idx |-> 0, start_val |-> 0, current_audio |-> << >>, den |-> 1,
          speed_num |-> 1, speed_den |-> 1, done |-> FALSE, raised |-> FALSE,
          passes |-> 0, resamples |-> 0, trailer_accepted |-> << >>,
          dists |-> << >>, lens |-> << >>, s_idx |-> 0, search_len |-> 0,
          measured |-> << >>]

no_extract == [raised |-> FALSE, ret |-> None, window_fits |-> FALSE,
               final_start_index |-> 0, final_val |-> 0, polarity_sign |-> 0,
               final_len |-> 0, payload_len |-> 0, raw_bits |-> << >>,
               bits |-> no_bits]

\* a loop of one more pass: for pass_num in range(3)
range_of_three == Cardinality(0..2)

\* for pass_num in range(2)
LoopPasses == 2

signal_vars == << audio, audio_before, watermark_id, embed_ret, rx, st,
                  extract_ret, prev_ret, inverted >>

bit_vars == << data, word, perrs, result >>

\* the fields of the DeepSeal object besides chip_rate and telecom_mode
inst_vars == << sample_rate, seed, rng, ctor >>

\* the RealTimeInjector and its streams
stream_vars == << buffer, stream_in, stream_out, stream_calls >>

\* the callers of generate_pn_sequence and of concurrent embed / extract,
\* and the web application
call_vars == << pn_calls, thr, web >>

no_ctor == [seed_given |-> FALSE, seed |-> 0, key_given |-> FALSE, key |-> ""]

no_thr == [a_pc |-> "none", b_pc |-> "none"]

\* no AudioTask, no worker
no_web == [queue |-> 0]

\* DeepSeal(): self.seed = 42, self.rng = RandomState(self.seed)
DefaultInstance ==
    /\ seed = u32_of_int(DefaultSeed)
    /\ rng = 0
    /\ ctor = no_ctor

\* no stream adapter
NoStream ==
    /\ buffer = << >>
    /\ stream_in = << >>
    /\ stream_out = << >>
    /\ stream_calls = 0

\* no caller besides the ones of the specification
NoCalls ==
    /\ pn_calls = << >>
    /\ thr = no_thr
    /\ web = no_web

\* DeepSeal(chip_rate=..., telecom_mode=...)
Init ==
    /\ \E c \in Configs :
        chip_rate = c[1] /\ telecom_mode = c[2] /\ sample_rate = c[3]
    /\ DefaultInstance
    /\ NoStream
    /\ NoCalls
    /\ audio = << >>
    /\ audio_before = << >>
    /\ watermark_id = 0
    /\ embed_ret = no_embed
    /\ rx = << >>
    /\ errs = {}
    /\ st = no_st
    /\ extract_ret = no_extract
    /\ prev_ret = no_extract
    /\ inverted = FALSE
    /\ pc = "idle"
    /\ data = << >>
    /\ word = << >>
    /\ perrs = {}
    /\ result = no_bits

\* the caller picks a host and an id
ChooseHost ==
    /\ pc = "idle"
    /\ \E kind \in {"silence", "click"}, len \in HostLens(chip_rate), id \in Ids :
        /\ audio' = Host(kind, len, chip_rate, telecom_mode)
        /\ watermark_id' = id
    /\ pc' = "ready"
    /\ UNCHANGED << chip_rate, telecom_mode, audio_before, embed_ret, rx, errs,
                    st, extract_ret, prev_ret, inverted >>
    /\ UNCHANGED bit_vars
    /\ UNCHANGED << inst_vars, stream_vars, call_vars >>

\* embed(audio, watermark_id)
Embed ==
    /\ pc = "ready"
    /\ LET out == embed(audio, watermark_id, chip_rate, telecom_mode)
       IN  /\ embed_ret' = out
           /\ audio_before' = audio
           /\ audio' = IF out.status = "ok"
                       THEN host_after_embed(audio, out.audio)
                       ELSE audio
    /\ pc' = "embedded"
    /\ UNCHANGED << chip_rate, telecom_mode, watermark_id, rx, errs, st,
                    extract_ret, prev_ret, inverted >>
    /\ UNCHANGED bit_vars
    /\ UNCHANGED << inst_vars, stream_vars, call_vars >>

\* the watermarked audio goes onto the channel
Transmit ==
    /\ pc = "embedded"
    /\ embed_ret.status = "ok"
    /\ rx' = embed_ret.audio
    /\ pc' = "channel"
    /\ UNCHANGED << chip_rate, telecom_mode, audio, audio_before, watermark_id,
                    embed_ret, errs, st, extract_ret, prev_ret, inverted >>
    /\ UNCHANGED bit_vars
    /\ UNCHANGED << inst_vars, stream_vars, call_vars >>

\* the channel inverts the samples of payload bit period b
Corrupt ==
    /\ pc = "channel"
    /\ \E b \in 0..MaxErrBit :
        /\ b \notin errs
        /\ LET lo == (Len(preamble_bits) + b) * chip_rate
           IN  rx' = AsSeq([n \in 1..Len(rx) |->
                        IF n > lo /\ n <= lo + chip_rate THEN -rx[n] ELSE rx[n]])
        /\ errs' = errs \cup {b}
    /\ UNCHANGED << chip_rate, telecom_mode, audio, audio_before, watermark_id,
                    embed_ret, st, extract_ret, prev_ret, inverted, pc >>
    /\ UNCHANGED bit_vars
    /\ UNCHANGED << inst_vars, stream_vars, call_vars >>

\* what the receiver can keep of the signal: half a preamble (an audio
\* shorter than the reference), the frame without its trailer, one sample
\* less, or all of it
KeepLens(cr, x) == { (Len(preamble_bits) * cr) \div 2,
                     (Len(preamble_bits) + encoded_payload_len) * cr - 1,
                     (Len(preamble_bits) + encoded_payload_len) * cr,
                     Len(x) }

\* the silence the receiver can record in front of the signal, in samples
Leads == {0, 1}

\* the receiver records lead samples of silence, then keep samples
Record ==
    /\ pc = "channel"
    /\ \E keep \in KeepLens(chip_rate, rx), lead \in Leads :
        rx' = zeros(lead) \o slice(rx, 0, keep)
    /\ pc' = "received"
    /\ UNCHANGED << chip_rate, telecom_mode, audio, audio_before, watermark_id,
                    embed_ret, errs, st, extract_ret, prev_ret, inverted >>
    /\ UNCHANGED bit_vars
    /\ UNCHANGED << inst_vars, stream_vars, call_vars >>

\* the receiver records silence only
RecordSilence ==
    /\ pc = "idle"
    /\ \E len \in KeepLens(chip_rate, zeros(frame_len(chip_rate) + MaxHostTail)) :
        rx' = zeros(len)
    /\ pc' = "received"
    /\ UNCHANGED << chip_rate, telecom_mode, audio, audio_before, watermark_id,
                    embed_ret, errs, st, extract_ret, prev_ret, inverted >>
    /\ UNCHANGED bit_vars
    /\ UNCHANGED << inst_vars, stream_vars, call_vars >>

\* a recording of the two markers the synchronisation of extract correlates
\* for: the waveform of its reference preamble (before pre-processing),
\* silence for the 70 payload bit periods, and the same waveform again at the
\* nominal distance of 86 bit periods
Markers(cr) ==
    LET marker == spread(preamble_bits, cr,
                         generate_pn_sequence(Len(preamble_bits) * cr))
    IN  marker \o zeros(encoded_payload_len * cr) \o marker

\* the receiver records the two markers and lead samples of silence in front
RecordMarkers ==
    /\ pc = "idle"
    /\ \E lead \in Leads :
        rx' = zeros(lead) \o Markers(chip_rate)
    /\ pc' = "received"
    /\ UNCHANGED << chip_rate, telecom_mode, audio, audio_before, watermark_id,
                    embed_ret, errs, st, extract_ret, prev_ret, inverted >>
    /\ UNCHANGED bit_vars
    /\ UNCHANGED << inst_vars, stream_vars, call_vars >>

\* extract(rx), lines 274-314
ExtractStart ==
    /\ pc = "received"
    /\ st' = extract_start(rx, chip_rate, telecom_mode)
    /\ pc' = "speed_loop"
    /\ UNCHANGED << chip_rate, telecom_mode, audio, audio_before, watermark_id,
                    embed_ret, rx, errs, extract_ret, prev_ret, inverted >>
    /\ UNCHANGED bit_vars
    /\ UNCHANGED << inst_vars, stream_vars, call_vars >>

\* one pass of the loop of lines 316-396; break and exceptions leave it
SpeedPass ==
    /\ pc = "speed_loop"
    /\ LET nxt == speed_pass(st.passes, st, chip_rate, telecom_mode)
       IN  /\ st' = nxt
           /\ pc' = IF nxt.done \/ nxt.passes >= LoopPasses
                    THEN "final" ELSE "speed_loop"
    /\ UNCHANGED << chip_rate, telecom_mode, audio, audio_before, watermark_id,
                    embed_ret, rx, errs, extract_ret, prev_ret, inverted >>
    /\ UNCHANGED bit_vars
    /\ UNCHANGED << inst_vars, stream_vars, call_vars >>

\* lines 398-478
ExtractFinish ==
    /\ pc = "final"
    /\ extract_ret' = extract_finish(st, chip_rate, telecom_mode)
    /\ pc' = "extracted"
    /\ UNCHANGED << chip_rate, telecom_mode, audio, audio_before, watermark_id,
                    embed_ret, rx, errs, st, prev_ret, inverted >>
    /\ UNCHANGED bit_vars
    /\ UNCHANGED << inst_vars, stream_vars, call_vars >>

\* the receiver inverts a recording that gave an id and runs extract again
Invert ==
    /\ pc = "extracted"
    /\ ~inverted
    /\ extract_ret.ret # None
    /\ rx' = negate(rx)
    /\ prev_ret' = extract_ret
    /\ inverted' = TRUE
    /\ pc' = "received"
    /\ UNCHANGED << chip_rate, telecom_mode, audio, audio_before, watermark_id,
                    embed_ret, errs, st, extract_ret >>
    /\ UNCHANGED bit_vars
    /\ UNCHANGED << inst_vars, stream_vars, call_vars >>

Next ==
    \/ ChooseHost
    \/ Embed
    \/ Transmit
    \/ Corrupt
    \/ Record
    \/ RecordSilence
    \/ RecordMarkers
    \/ ExtractStart
    \/ SpeedPass
    \/ ExtractFinish
    \/ Invert

Spec == Init /\ [][Next]_vars

(***************************************************************************)
(* Bit level, Hamming code: a nibble is encoded (FEC.encode_hamming), up   *)
(* to MaxFlips bits of the codeword are flipped on the wire, and the       *)
(* codeword is decoded (SystematicFEC.decode_hamming).                     *)
(***************************************************************************)
Nibbles == { << a, b, c, d >> : a \in {0, 1}, b \in {0, 1}, c \in {0, 1}, d \in {0, 1} }

InitFEC ==
    /\ chip_rate = 1
    /\ telecom_mode = FALSE
    /\ sample_rate = DefaultSampleRate
    /\ DefaultInstance
    /\ NoStream
    /\ NoCalls
    /\ audio = << >>
    /\ audio_before = << >>
    /\ watermark_id = 0
    /\ embed_ret = no_embed
    /\ rx = << >>
    /\ errs = {}
    /\ st = no_st
    /\ extract_ret = no_extract
    /\ prev_ret = no_extract
    /\ inverted = FALSE
    /\ pc = "fec_data"
    /\ data \in Nibbles
    /\ word = << >>
    /\ perrs = {}
    /\ result = no_bits

\* word = fec.encode_hamming(data)
FecEncode ==
    /\ pc = "fec_data"
    /\ word' = encode_hamming(data)
    /\ pc' = "fec_coded"
    /\ UNCHANGED << chip_rate, telecom_mode, errs, data, perrs, result >>
    /\ UNCHANGED signal_vars
    /\ UNCHANGED << inst_vars, stream_vars, call_vars >>

\* word = FEC().encode_hamming(data), on an object of the base class
FecEncodeBase ==
    /\ pc = "fec_data"
    /\ word' = base_encode_hamming(data)
    /\ pc' = "base_coded"
    /\ UNCHANGED << chip_rate, telecom_mode, errs, data, perrs, result >>
    /\ UNCHANGED signal_vars
    /\ UNCHANGED << inst_vars, stream_vars, call_vars >>

\* the wire flips bit p of the codeword
FecFlip ==
    /\ pc \in {"fec_coded", "base_coded"}
    /\ Cardinality(errs) < MaxFlips
    /\ \E p \in 0..6 :
        /\ p \notin errs
        /\ word' = FlipAt(word, p + 1)
        /\ errs' = errs \cup {p}
    /\ UNCHANGED << chip_rate, telecom_mode, pc, data, perrs, result >>
    /\ UNCHANGED signal_vars
    /\ UNCHANGED << inst_vars, stream_vars, call_vars >>

\* fec.decode_hamming(word)
FecDecode ==
    /\ pc = "fec_coded"
    /\ result' = [no_bits EXCEPT !.decoded_bits = decode_hamming(word)]
    /\ pc' = "fec_decoded"
    /\ UNCHANGED << chip_rate, telecom_mode, errs, data, word, perrs >>
    /\ UNCHANGED signal_vars
    /\ UNCHANGED << inst_vars, stream_vars, call_vars >>

\* FEC().decode_hamming(word), on an object of the base class
FecDecodeBase ==
    /\ pc = "base_coded"
    /\ result' = [no_bits EXCEPT !.decoded_bits = base_decode_hamming(word)]
    /\ pc' = "base_decoded"
    /\ UNCHANGED << chip_rate, telecom_mode, errs, data, word, perrs >>
    /\ UNCHANGED signal_vars
    /\ UNCHANGED << inst_vars, stream_vars, call_vars >>

NextFEC ==
    \/ FecEncode
    \/ FecEncodeBase
    \/ FecFlip
    \/ FecDecode
    \/ FecDecodeBase

SpecFEC == InitFEC /\ [][NextFEC]_vars

(***************************************************************************)
(* Bit level, frame: the 70 payload bits embed builds for an id, bit       *)
(* errors on bit periods 0 .. MaxErrBit, then the tail of extract:         *)
(* de-interleave and FEC decode, and the CRC gate.  Between the two, one   *)
(* bit of the decoded 32-bit payload can be flipped.                       *)
(***************************************************************************)
ValidIds == { id \in Ids : id_is_valid(id) }

InitFrame ==
    /\ chip_rate = 1
    /\ telecom_mode = FALSE
    /\ sample_rate = DefaultSampleRate
    /\ DefaultInstance
    /\ NoStream
    /\ NoCalls
    /\ audio = << >>
    /\ audio_before = << >>
    /\ watermark_id \in ValidIds
    /\ embed_ret = no_embed
    /\ rx = << >>
    /\ errs = {}
    /\ st = no_st
    /\ extract_ret = no_extract
    /\ prev_ret = no_extract
    /\ inverted = FALSE
    /\ pc = "frame_id"
    /\ data = << >>
    /\ word = << >>
    /\ perrs = {}
    /\ result = no_bits

\* embed, lines 191-211: data_to_encode and the interleaved code bits
FrameBuild ==
    /\ pc = "frame_id"
    /\ data' = data_to_encode(watermark_id)
    /\ word' = interleaved_bits(watermark_id)
    /\ pc' = "frame_coded"
    /\ UNCHANGED << chip_rate, telecom_mode, errs, perrs, result >>
    /\ UNCHANGED signal_vars
    /\ UNCHANGED << inst_vars, stream_vars, call_vars >>

\* the demodulator gets bit b wrong
FrameFlip ==
    /\ pc = "frame_coded"
    /\ \E b \in 0..MaxErrBit :
        /\ b \notin errs
        /\ word' = FlipAt(word, b + 1)
        /\ errs' = errs \cup {b}
    /\ UNCHANGED << chip_rate, telecom_mode, pc, data, perrs, result >>
    /\ UNCHANGED signal_vars
    /\ UNCHANGED << inst_vars, stream_vars, call_vars >>

\* extract, lines 445-453
FrameDecode ==
    /\ pc = "frame_coded"
    /\ result' = [no_bits EXCEPT !.decoded_bits = deinterleave_decode(word)]
    /\ pc' = "frame_decoded"
    /\ UNCHANGED << chip_rate, telecom_mode, errs, data, word, perrs >>
    /\ UNCHANGED signal_vars
    /\ UNCHANGED << inst_vars, stream_vars, call_vars >>

\* one bit of the decoded 32-bit payload is flipped before the CRC gate
PayloadFlip ==
    /\ pc = "frame_decoded"
    /\ perrs = {}
    /\ \E p \in 0..31 :
        /\ result' = [result EXCEPT !.decoded_bits = FlipAt(result.decoded_bits, p + 1)]
        /\ perrs' = {p}
    /\ UNCHANGED << chip_rate, telecom_mode, pc, errs, data, word >>
    /\ UNCHANGED signal_vars
    /\ UNCHANGED << inst_vars, stream_vars, call_vars >>

\* extract, lines 455-478
FrameCheck ==
    /\ pc = "frame_decoded"
    /\ result' = crc_gate(result.decoded_bits)
    /\ pc' = "frame_checked"
    /\ UNCHANGED << chip_rate, telecom_mode, errs, data, word, perrs >>
    /\ UNCHANGED signal_vars
    /\ UNCHANGED << inst_vars, stream_vars, call_vars >>

NextFrame ==
    \/ FrameBuild
    \/ FrameFlip
    \/ FrameDecode
    \/ PayloadFlip
    \/ FrameCheck

SpecFrame == InitFrame /\ [][NextFrame]_vars

(***************************************************************************)
(* The stream adapter: RealTimeInjector (src/src/sonictag/realtime.py).    *)
(* __init__ builds DeepSeal(chip_rate=chip_rate, sample_rate=sample_rate), *)
(* so the seed is the default one and telecom_mode is False.               *)
(* process_stream is a generator; the model steps it through its for loop  *)
(* (one input chunk per turn), its while loop (one frame per turn) and the *)
(* code after the loops.  An exception of embed leaves the generator.      *)
(***************************************************************************)
\* how many chunks the input stream of the model yields at most
MaxChunks == 2

\* how many times process_stream is called on the one injector at most
MaxStreams == 2

\* self.bits_count = 86
bits_count == 86

\* self.chunk_size = self.bits_count * chip_rate
chunk_size(cr) == bits_count * cr

\* the sample of the input stream at position n (1-based), never zero
stream_sample(n) == (n % 5) + 1

\* the lengths of the chunks of the input stream
ChunkLens(cr) == { 0, 4 * cr, chunk_size(cr) \div 2, chunk_size(cr),
                   chunk_size(cr) + 4 * cr }

\* the sequences of at most MaxChunks chunk lengths
ChunkLenSeqs(cr) ==
    UNION { [1..k -> ChunkLens(cr)] : k \in 0..MaxChunks }

\* lens[1] + ... + lens[k]
RECURSIVE sum_lens(_, _)
sum_lens(lens, k) == IF k = 0 THEN 0 ELSE sum_lens(lens, k - 1) + lens[k]

\* the input stream cut into chunks of the given lengths
chunks_of(lens) ==
    AsSeq([k \in 1..Len(lens) |->
        AsSeq([n \in 1..lens[k] |-> stream_sample(sum_lens(lens, k - 1) + n)])])

\* the input stream of call number c: the samples of the first stream are
\* positive, those of the second negative, and so on in turn
stream_of(c, lens) ==
    IF c % 2 = 1 THEN chunks_of(lens)
    ELSE AsSeq([k \in 1..Len(lens) |-> negate(chunks_of(lens)[k])])

\* the variant of residual_yield that yields the buffer even when it is empty
residual_yield_always(out, buf) == Append(out, buf)

\* lines 58-59: if len(self.buffer) > 0: yield self.buffer
residual_yield(out, buf) == IF Len(buf) > 0 THEN Append(out, buf) ELSE out

\* the samples of the chunks one after the other
RECURSIVE concat_all(_)
concat_all(chunks) ==
    IF chunks = << >> THEN << >>
    ELSE Head(chunks) \o concat_all(Tail(chunks))

\* One turn of the while loop, lines 37-45: the frame is cut off the buffer,
\* then embed is called on it.
hand_off(buf, id, cr) ==
    LET frame == slice(buf, 0, chunk_size(cr))
    IN  [buffer |-> slice(buf, chunk_size(cr), Len(buf)),
         frame |-> frame,
         ret |-> embed(frame, id, cr, FALSE)]

\* RealTimeInjector(watermark_id, chip_rate) and an input stream
InitStream ==
    /\ chip_rate \in {1, 2}
    /\ telecom_mode = FALSE
    /\ sample_rate = DefaultSampleRate
    /\ DefaultInstance
    /\ NoCalls
    /\ audio_before = << >>
    /\ watermark_id \in Ids
    /\ embed_ret = no_embed
    /\ rx = << >>
    /\ errs = {}
    /\ st = no_st
    /\ extract_ret = no_extract
    /\ prev_ret = no_extract
    /\ inverted = FALSE
    /\ pc = "stream_for"
    /\ data = << >>
    /\ word = << >>
    /\ perrs = {}
    /\ result = no_bits
    /\ buffer = << >>
    /\ \E lens \in ChunkLenSeqs(chip_rate) :
        /\ stream_in = stream_of(1, lens)
        \* full_audio, the whole input
        /\ audio = concat_all(stream_of(1, lens))
    /\ stream_out = << >>
    /\ stream_calls = 1

\* the variables process_stream leaves alone
stream_frame == << chip_rate, telecom_mode, audio, audio_before, watermark_id,
                  rx, errs, st, extract_ret, prev_ret, inverted >>

\* for chunk in audio_stream: self.buffer = np.concatenate([self.buffer, chunk])
StreamNext ==
    /\ pc = "stream_for"
    /\ stream_in # << >>
    /\ buffer' = buffer \o Head(stream_in)
    /\ stream_in' = Tail(stream_in)
    /\ pc' = "stream_while"
    /\ UNCHANGED << stream_frame, embed_ret, stream_out, stream_calls >>
    /\ UNCHANGED << bit_vars, inst_vars, call_vars >>

\* one turn of while len(self.buffer) >= self.chunk_size: the frame leaves
\* the buffer, embed watermarks it and the result is yielded; when embed
\* raises, the exception leaves process_stream
StreamHandOff ==
    /\ pc = "stream_while"
    /\ Len(buffer) >= chunk_size(chip_rate)
    /\ LET h == hand_off(buffer, watermark_id, chip_rate)
       IN  /\ buffer' = h.buffer
           /\ embed_ret' = h.ret
           /\ IF h.ret.status = "ok"
              THEN /\ stream_out' = Append(stream_out, h.ret.audio)
                   /\ pc' = "stream_while"
              ELSE /\ stream_out' = stream_out
                   /\ pc' = "stream_raised"
    /\ UNCHANGED << stream_frame, stream_in, stream_calls >>
    /\ UNCHANGED << bit_vars, inst_vars, call_vars >>

\* the while loop ends: the buffer holds less than a frame
StreamWhileEnd ==
    /\ pc = "stream_while"
    /\ Len(buffer) < chunk_size(chip_rate)
    /\ pc' = "stream_for"
    /\ UNCHANGED << stream_frame, embed_ret, stream_vars >>
    /\ UNCHANGED << bit_vars, inst_vars, call_vars >>

\* the input stream is exhausted: lines 58-59 yield the remaining buffer
StreamEnd ==
    /\ pc = "stream_for"
    /\ stream_in = << >>
    /\ stream_out' = residual_yield(stream_out, buffer)
    /\ pc' = "stream_done"
    /\ UNCHANGED << stream_frame, embed_ret, buffer, stream_in, stream_calls >>
    /\ UNCHANGED << bit_vars, inst_vars, call_vars >>

\* process_stream is called again on the same injector with a new input
\* stream: a new generator, the same self.buffer
StreamAgain ==
    /\ pc = "stream_done"
    /\ stream_calls < MaxStreams
    /\ \E lens \in ChunkLenSeqs(chip_rate) :
        /\ stream_in' = stream_of(stream_calls + 1, lens)
        /\ audio' = concat_all(stream_of(stream_calls + 1, lens))
    /\ stream_out' = << >>
    /\ stream_calls' = stream_calls + 1
    /\ pc' = "stream_for"
    /\ UNCHANGED << chip_rate, telecom_mode, audio_before, watermark_id,
                    rx, errs, st, extract_ret, prev_ret, inverted >>
    /\ UNCHANGED << embed_ret, buffer >>
    /\ UNCHANGED << bit_vars, inst_vars, call_vars >>

NextStream ==
    \/ StreamNext
    \/ StreamHandOff
    \/ StreamWhileEnd
    \/ StreamEnd
    \/ StreamAgain

SpecStream == InitStream /\ [][NextStream]_vars

(***************************************************************************)
(* Construction and the PN generator.  DeepSeal(seed=..., key=...) selects *)
(* the seed (lines 32-41) and builds self.rng (line 53);                   *)
(* generate_pn_sequence (lines 55-69) draws from a generator of its own.   *)
(* A caller builds objects one after the other and calls                   *)
(* generate_pn_sequence on the newest one; pn_calls is the log of the      *)
(* calls.                                                                  *)
(***************************************************************************)
\* the longest sequence a caller of the model asks for
MaxPnLen == 3

\* how many calls of generate_pn_sequence the log holds
MaxPnCalls == 2

\* the key strings: the empty string and the keys of test_key_security
Keys == { "", "secret_A", "secret_B" }

\* the explicit seeds: 0, the default value and the seed of the PN test
Seeds == { 0, 42, 123 }

\* hashlib.sha256(key.encode('utf-8')).digest()[:4]
sha256_first4(key) ==
    CASE key = "" -> << 227, 176, 196, 66 >>
      [] key = "secret_A" -> << 93, 212, 163, 57 >>
      [] key = "secret_B" -> << 255, 26, 93, 232 >>

\* int.from_bytes(hash_bytes[:4], 'big') as << hi, lo >>
from_bytes_big(b) == << b[1] * 256 + b[2], b[3] * 256 + b[4] >>

\* line 33: "if key:" is false for None and for the empty string
key_is_set(args) == args.key_given /\ args.key # ""

\* lines 32-41: the seed of DeepSeal(seed=args.seed, key=args.key)
seed_of(args) ==
    IF ~args.seed_given
    THEN IF key_is_set(args)
         THEN from_bytes_big(sha256_first4(args.key))
         ELSE u32_of_int(DefaultSeed)
    ELSE u32_of_int(args.seed)

\* the argument lists of the constructor
CtorArgs ==
    { [seed_given |-> sg, seed |-> s, key_given |-> kg, key |-> k] :
        sg \in BOOLEAN, s \in Seeds, kg \in BOOLEAN, k \in Keys }

\* the argument lists as a caller writes them: an argument left out is None
CtorCalls ==
    { a \in CtorArgs : /\ (~a.seed_given => a.seed = 0)
                       /\ (~a.key_given => a.key = "") }

\* the variant of generate_pn_sequence that draws from self.rng
pn_call_shared(self_rng, s, length) ==
    [out |-> pn_from(s, self_rng, length), rng |-> self_rng + length]

\* generate_pn_sequence(length) on an object with seed s whose self.rng has
\* given self_rng values so far: the sequence returned and self.rng after
pn_call(self_rng, s, length) ==
    [out |-> generate_pn_sequence_of(s, length), rng |-> self_rng]

InitSeed ==
    /\ chip_rate = 1
    /\ telecom_mode = FALSE
    /\ sample_rate = DefaultSampleRate
    /\ \E a \in CtorCalls :
        /\ ctor = a
        /\ seed = seed_of(a)
    /\ rng = 0
    /\ pn_calls = << >>
    /\ thr = no_thr
    /\ web = no_web
    /\ NoStream
    /\ audio = << >>
    /\ audio_before = << >>
    /\ watermark_id = 0
    /\ embed_ret = no_embed
    /\ rx = << >>
    /\ errs = {}
    /\ st = no_st
    /\ extract_ret = no_extract
    /\ prev_ret = no_extract
    /\ inverted = FALSE
    /\ pc = "built"
    /\ data = << >>
    /\ word = << >>
    /\ perrs = {}
    /\ result = no_bits

\* ds = DeepSeal(seed=..., key=...): another object takes the place of ds
Construct ==
    /\ pc = "built"
    /\ \E a \in CtorCalls :
        /\ a # ctor
        /\ ctor' = a
        /\ seed' = seed_of(a)
    /\ rng' = 0
    /\ pc' = "rebuilt"
    /\ UNCHANGED << chip_rate, telecom_mode, sample_rate, errs, pn_calls, thr,
                    web >>
    /\ UNCHANGED << signal_vars, bit_vars, stream_vars >>

\* ds.generate_pn_sequence(length)
PnCall ==
    /\ pc \in {"built", "rebuilt"}
    /\ Len(pn_calls) < MaxPnCalls
    /\ \E length \in 0..MaxPnLen :
        LET c == pn_call(rng, seed, length)
        IN  /\ pn_calls' = Append(pn_calls,
                              [ctor |-> ctor, seed |-> seed, length |-> length,
                               out |-> c.out, rng_before |-> rng,
                               rng_after |-> c.rng])
            /\ rng' = c.rng
    /\ UNCHANGED << chip_rate, telecom_mode, sample_rate, errs, seed, ctor,
                    thr, web, pc >>
    /\ UNCHANGED << signal_vars, bit_vars, stream_vars >>

NextSeed ==
    \/ Construct
    \/ PnCall

SpecSeed == InitSeed /\ [][NextSeed]_vars

(***************************************************************************)
(* Two calls on one DeepSeal object: thread A runs embed(x, id) and thread *)
(* B runs extract(x) on the same array x.  Each call is first run alone    *)
(* (phase "alone_b", then "alone_a", each on the caller's original x) and  *)
(* then both run together (phase "both"), their steps interleaved in any   *)
(* order.  embed reads x and the object while it builds the weighted       *)
(* watermark (lines 188-243) and reads x again when it copies it (line     *)
(* 246); extract reads x in its pre-processing (lines 275-279) and works   *)
(* on arrays of its own afterwards.                                        *)
(***************************************************************************)
\* embed up to line 243: the error it raises, or the weighted watermark
embed_prepare(x, id, cr, tm) ==
    LET r == embed(x, id, cr, tm)
    IN  IF r.status = "ok"
        THEN [status |-> "ok", needed |-> r.needed,
              weighted_watermark |-> AsSeq([n \in 1..r.needed |-> r.audio[n] - x[n]])]
        ELSE [status |-> r.status, needed |-> r.needed,
              weighted_watermark |-> << >>]

\* the fields of the object
instance_fields == << chip_rate, telecom_mode, sample_rate, seed, rng >>

idle_threads(x) ==
    [phase |-> "alone_b", x0 |-> x, inst0 |-> << >>,
     a_pc |-> "idle", a_prep |-> << >>, a_ret |-> no_embed,
     b_pc |-> "idle", b_st |-> no_st, b_ret |-> no_extract,
     ref_a |-> no_embed, ref_b |-> no_extract]

\* x is a watermarked recording; the id thread A embeds is watermark_id
InitConc ==
    /\ \E c \in Configs :
        /\ chip_rate = c[1] /\ telecom_mode = c[2] /\ sample_rate = c[3]
        /\ \E kind \in {"silence", "click"},
              keep \in KeepLens(c[1], zeros(frame_len(c[1]) + MaxHostTail)) :
            LET host == Host(kind, frame_len(c[1]) + MaxHostTail, c[1], c[2])
                x == slice(embed(host, 123456789, c[1], c[2]).audio, 0, keep)
            IN  /\ audio = x
                /\ thr = [idle_threads(x) EXCEPT
                            !.inst0 = << c[1], c[2], c[3],
                                         u32_of_int(DefaultSeed), 0 >>]
    /\ DefaultInstance
    /\ NoStream
    /\ pn_calls = << >>
    /\ web = no_web
    /\ audio_before = << >>
    /\ watermark_id \in Ids
    /\ embed_ret = no_embed
    /\ rx = << >>
    /\ errs = {}
    /\ st = no_st
    /\ extract_ret = no_extract
    /\ prev_ret = no_extract
    /\ inverted = FALSE
    /\ pc = "threads"
    /\ data = << >>
    /\ word = << >>
    /\ perrs = {}
    /\ result = no_bits

\* what the steps of the two threads leave alone
conc_frame == << chip_rate, telecom_mode, audio_before, watermark_id, embed_ret,
                rx, errs, st, extract_ret, prev_ret, inverted, pc, pn_calls,
                web >>

\* thread A, embed lines 188-243
EmbedPrepare ==
    /\ pc = "threads"
    /\ thr.phase \in {"alone_a", "both"}
    /\ thr.a_pc = "idle"
    /\ LET p == embed_prepare(audio, watermark_id, chip_rate, telecom_mode)
       IN  thr' = IF p.status = "ok"
                  THEN [thr EXCEPT !.a_pc = "prepared", !.a_prep = p]
                  ELSE [thr EXCEPT !.a_pc = "done",
                            !.a_ret = [status |-> p.status, audio |-> << >>,
                                       needed |-> p.needed]]
    /\ UNCHANGED << conc_frame, audio >>
    /\ UNCHANGED << bit_vars, inst_vars, stream_vars >>

\* thread A, embed lines 246-249: copy, inject, return
EmbedInject ==
    /\ pc = "threads"
    /\ thr.phase \in {"alone_a", "both"}
    /\ thr.a_pc = "prepared"
    /\ LET watermarked_audio == inject(audio, thr.a_prep.weighted_watermark)
       IN  /\ thr' = [thr EXCEPT !.a_pc = "done",
                          !.a_ret = [status |-> "ok", audio |-> watermarked_audio,
                                     needed |-> thr.a_prep.needed]]
           /\ audio' = host_after_embed(audio, watermarked_audio)
    /\ UNCHANGED conc_frame
    /\ UNCHANGED << bit_vars, inst_vars, stream_vars >>

\* thread B, extract lines 274-314
ExtractBegin ==
    /\ pc = "threads"
    /\ thr.phase \in {"alone_b", "both"}
    /\ thr.b_pc = "idle"
    /\ thr' = [thr EXCEPT !.b_pc = "speed_loop",
                   !.b_st = extract_start(audio, chip_rate, telecom_mode)]
    /\ UNCHANGED << conc_frame, audio >>
    /\ UNCHANGED << bit_vars, inst_vars, stream_vars >>

\* thread B, one pass of the loop of lines 316-396
ExtractPass ==
    /\ pc = "threads"
    /\ thr.phase \in {"alone_b", "both"}
    /\ thr.b_pc = "speed_loop"
    /\ LET nxt == speed_pass(thr.b_st.passes, thr.b_st, chip_rate, telecom_mode)
       IN  thr' = [thr EXCEPT !.b_st = nxt,
                       !.b_pc = IF nxt.done \/ nxt.passes >= LoopPasses
                                THEN "final" ELSE "speed_loop"]
    /\ UNCHANGED << conc_frame, audio >>
    /\ UNCHANGED << bit_vars, inst_vars, stream_vars >>

\* thread B, extract lines 398-478
ExtractEnd ==
    /\ pc = "threads"
    /\ thr.phase \in {"alone_b", "both"}
    /\ thr.b_pc = "final"
    /\ thr' = [thr EXCEPT !.b_pc = "done",
                   !.b_ret = extract_finish(thr.b_st, chip_rate, telecom_mode)]
    /\ UNCHANGED << conc_frame, audio >>
    /\ UNCHANGED << bit_vars, inst_vars, stream_vars >>

\* the call that ran alone has returned: its result is kept, and the next
\* phase starts on the caller's original array
NextPhase ==
    /\ pc = "threads"
    /\ \/ /\ thr.phase = "alone_b"
          /\ thr.b_pc = "done"
          /\ thr' = [idle_threads(thr.x0) EXCEPT
                        !.phase = "alone_a", !.inst0 = thr.inst0,
                        !.ref_b = thr.b_ret]
       \/ /\ thr.phase = "alone_a"
          /\ thr.a_pc = "done"
          /\ thr' = [idle_threads(thr.x0) EXCEPT
                        !.phase = "both", !.inst0 = thr.inst0,
                        !.ref_b = thr.ref_b, !.ref_a = thr.a_ret]
    /\ audio' = thr.x0
    /\ UNCHANGED conc_frame
    /\ UNCHANGED << bit_vars, inst_vars, stream_vars >>

NextConc ==
    \/ EmbedPrepare
    \/ EmbedInject
    \/ ExtractBegin
    \/ ExtractPass
    \/ ExtractEnd
    \/ NextPhase

SpecConc == InitConc /\ [][NextConc]_vars

(***************************************************************************)
(* Bit level, lengths: encode_hamming and SystematicFEC.decode_hamming are *)
(* called with bit strings of every length 0 .. MaxCallLen.                *)
(***************************************************************************)
MaxCallLen == 8

\* the bit strings of length 0 .. n
BitStrings(n) == UNION { [1..k -> {0, 1}] : k \in 0..n }

\* what a call of encode_hamming (which = "encode") or of decode_hamming
\* (which = "decode") does: raise, or return the bits of out
hamming_call(which, bits) ==
    LET raised == IF which = "encode" THEN encode_raises(bits)
                                      ELSE decode_raises(bits)
    IN  [call |-> which, raised |-> raised,
         out |-> IF raised THEN << >>
                 ELSE IF which = "encode" THEN encode_hamming(bits)
                                          ELSE decode_hamming(bits)]

InitLen ==
    /\ chip_rate = 1
    /\ telecom_mode = FALSE
    /\ sample_rate = DefaultSampleRate
    /\ DefaultInstance
    /\ NoStream
    /\ NoCalls
    /\ audio = << >>
    /\ audio_before = << >>
    /\ watermark_id = 0
    /\ embed_ret = no_embed
    /\ rx = << >>
    /\ errs = {}
    /\ st = no_st
    /\ extract_ret = no_extract
    /\ prev_ret = no_extract
    /\ inverted = FALSE
    /\ pc = "len_data"
    /\ data \in BitStrings(MaxCallLen)
    /\ word = << >>
    /\ perrs = {}
    /\ result = [call |-> "none", raised |-> FALSE, out |-> << >>]

\* fec.encode_hamming(data)
LenEncode ==
    /\ pc = "len_data"
    /\ result' = hamming_call("encode", data)
    /\ pc' = "len_encoded"
    /\ UNCHANGED << chip_rate, telecom_mode, errs, data, word, perrs >>
    /\ UNCHANGED signal_vars
    /\ UNCHANGED << inst_vars, stream_vars, call_vars >>

\* fec.decode_hamming(data)
LenDecode ==
    /\ pc = "len_data"
    /\ result' = hamming_call("decode", data)
    /\ pc' = "len_decoded"
    /\ UNCHANGED << chip_rate, telecom_mode, errs, data, word, perrs >>
    /\ UNCHANGED signal_vars
    /\ UNCHANGED << inst_vars, stream_vars, call_vars >>

NextLen ==
    \/ LenEncode
    \/ LenDecode

SpecLen == InitLen /\ [][NextLen]_vars

(***************************************************************************)
(* Bit codec: _int_to_bits(val, num_bits) for every width 0 .. MaxWidth    *)
(* and every val below 2^num_bits, then _bits_to_int on its result.        *)
(***************************************************************************)
MaxWidth == 6

no_codec == [val |-> 0, num_bits |-> 0, back |-> None]

InitCodec ==
    /\ chip_rate = 1
    /\ telecom_mode = FALSE
    /\ sample_rate = DefaultSampleRate
    /\ DefaultInstance
    /\ NoStream
    /\ NoCalls
    /\ audio = << >>
    /\ audio_before = << >>
    /\ watermark_id = 0
    /\ embed_ret = no_embed
    /\ rx = << >>
    /\ errs = {}
    /\ st = no_st
    /\ extract_ret = no_extract
    /\ prev_ret = no_extract
    /\ inverted = FALSE
    /\ pc = "codec_val"
    /\ data = << >>
    /\ word = << >>
    /\ perrs = {}
    /\ \E n \in 0..MaxWidth : \E v \in 0..(pow2[n + 1] - 1) :
        result = [no_codec EXCEPT !.val = v, !.num_bits = n]

\* word = ds._int_to_bits(val, num_bits)
CodecToBits ==
    /\ pc = "codec_val"
    /\ word' = int_to_bits(result.val, result.num_bits)
    /\ pc' = "codec_bits"
    /\ UNCHANGED << chip_rate, telecom_mode, errs, data, perrs, result >>
    /\ UNCHANGED signal_vars
    /\ UNCHANGED << inst_vars, stream_vars, call_vars >>

\* recovered = ds._bits_to_int(word)
CodecToInt ==
    /\ pc = "codec_bits"
    /\ result' = [result EXCEPT !.back = bits_to_int(word)]
    /\ pc' = "codec_back"
    /\ UNCHANGED << chip_rate, telecom_mode, errs, data, word, perrs >>
    /\ UNCHANGED signal_vars
    /\ UNCHANGED << inst_vars, stream_vars, call_vars >>

NextCodec ==
    \/ CodecToBits
    \/ CodecToInt

SpecCodec == InitCodec /\ [][NextCodec]_vars

(***************************************************************************)
(* The web application: one AudioTask row, created by the view, and the    *)
(* worker that runs process_stego_task on it.  The row and the task object *)
(* of the worker are records of the model's columns; NULL is the string    *)
(* "NULL" and completed_at is "NULL" or "now".  Reading the file, encoding *)
(* and decoding are calls into libraries that either return or raise, and  *)
(* every save either writes or raises (a database error).  web.history is  *)
(* the sequence of the values task_status has had in the stored row.       *)
(***************************************************************************)
\* the messages of the model: what the user hides, what the decoder finds
Messages == {"NULL", "hello", "sonic"}

\* models.py: the AudioTask the view creates, with the defaults of its fields
AudioTask(task_type, hidden_message) ==
    [task_type |-> task_type, hidden_message |-> hidden_message,
     processed_file |-> "NULL", task_status |-> "PENDING",
     error_message |-> "NULL", completed_at |-> "NULL"]

\* signals.py: if created: process_stego_task.delay(instance.id)
trigger_audio_processing(queue, created) ==
    IF created THEN queue + 1 ELSE queue

\* task.save(update_fields=...) that succeeds: the columns named are written
\* from the task object, and post_save runs the receiver with created = False
save(w, update_fields) ==
    LET row == [f \in DOMAIN w.row |->
                    IF f \in update_fields THEN w.task[f] ELSE w.row[f]]
    IN  [w EXCEPT !.row = row,
                  !.queue = trigger_audio_processing(w.queue, FALSE),
                  !.history = IF row.task_status = w.row.task_status
                              THEN w.history
                              ELSE Append(w.history, row.task_status)]

\* task.save(): every column
all_fields == {"task_type", "hidden_message", "processed_file", "task_status",
               "error_message", "completed_at"}

\* an exception e was raised in the try block: the worker goes to line 77
raise_in(w, e) == [w EXCEPT !.err = e]

\* the view has created the AudioTask and post_save has queued the task
InitTask ==
    /\ chip_rate = 1
    /\ telecom_mode = FALSE
    /\ sample_rate = DefaultSampleRate
    /\ DefaultInstance
    /\ NoStream
    /\ pn_calls = << >>
    /\ thr = no_thr
    /\ audio = << >>
    /\ audio_before = << >>
    /\ watermark_id = 0
    /\ embed_ret = no_embed
    /\ rx = << >>
    /\ errs = {}
    /\ st = no_st
    /\ extract_ret = no_extract
    /\ prev_ret = no_extract
    /\ inverted = FALSE
    /\ data = << >>
    /\ word = << >>
    /\ perrs = {}
    /\ result = no_bits
    /\ pc = "task_queued"
    /\ \E task_type \in {"ENCODE", "DECODE"}, m \in Messages :
        web = [queue |-> trigger_audio_processing(0, TRUE),
               row |-> AudioTask(task_type, m),
               task |-> AudioTask(task_type, m),
               has_task |-> FALSE, err |-> "NULL",
               history |-> << "PENDING" >>]

\* the variables the web application leaves alone
task_frame == << chip_rate, telecom_mode, errs, signal_vars, bit_vars,
                inst_vars, stream_vars, pn_calls, thr >>

\* lines 21-23: the worker takes the task from the queue, fetches the row,
\* sets PROCESSING and saves
TaskStart ==
    /\ pc = "task_queued"
    /\ web.queue > 0
    /\ \E get_ok \in BOOLEAN, save_ok \in BOOLEAN :
        LET w0 == [web EXCEPT !.queue = web.queue - 1]
            w1 == [w0 EXCEPT !.task = w0.row, !.has_task = TRUE,
                             !.task.task_status = "PROCESSING"]
        IN  IF ~get_ok
            THEN /\ web' = raise_in(w0, "get failed")
                 /\ pc' = "task_except"
            ELSE IF ~save_ok
            THEN /\ web' = raise_in(w1, "save failed")
                 /\ pc' = "task_except"
            ELSE /\ web' = save(w1, all_fields)
                 /\ pc' = "task_read"
    /\ UNCHANGED task_frame

\* lines 25-45: the audio file is read and converted
TaskRead ==
    /\ pc = "task_read"
    /\ \E read_ok \in BOOLEAN :
        IF read_ok
        THEN /\ web' = web
             /\ pc' = IF web.task.task_type = "ENCODE" THEN "task_encode"
                      ELSE "task_decode"
        ELSE /\ web' = raise_in(web, "read failed")
             /\ pc' = "task_except"
    /\ UNCHANGED task_frame

\* lines 47-59: encode, write the WAV, processed_file.save(..., save=False)
TaskEncode ==
    /\ pc = "task_encode"
    /\ \E encode_ok \in BOOLEAN :
        IF encode_ok
        THEN /\ web' = [web EXCEPT !.task.processed_file = "stego.wav"]
             /\ pc' = "task_finish"
        ELSE /\ web' = raise_in(web, "encode failed")
             /\ pc' = "task_except"
    /\ UNCHANGED task_frame

\* lines 61-68: decode, task.save(update_fields=["hidden_message"])
TaskDecode ==
    /\ pc = "task_decode"
    /\ \E decode_ok \in BOOLEAN, save_ok \in BOOLEAN, m \in Messages :
        LET w1 == [web EXCEPT !.task.hidden_message = m]
        IN  IF ~decode_ok
            THEN /\ web' = raise_in(web, "decode failed")
                 /\ pc' = "task_except"
            ELSE IF ~save_ok
            THEN /\ web' = raise_in(w1, "save failed")
                 /\ pc' = "task_except"
            ELSE /\ web' = save(w1, {"hidden_message"})
                 /\ pc' = "task_finish"
    /\ UNCHANGED task_frame

\* lines 70-75: COMPLETED, completed_at = now, save, return
TaskComplete ==
    /\ pc = "task_finish"
    /\ \E save_ok \in BOOLEAN :
        LET w1 == [web EXCEPT !.task.task_status = "COMPLETED",
                              !.task.completed_at = "now"]
        IN  IF save_ok
            THEN /\ web' = save(w1, all_fields)
                 /\ pc' = "task_returned"
            ELSE /\ web' = raise_in(w1, "save failed")
                 /\ pc' = "task_except"
    /\ UNCHANGED task_frame

\* lines 77-83: the handler; when its own save raises, the exception leaves
\* process_stego_task
TaskExcept ==
    /\ pc = "task_except"
    /\ \E save_ok \in BOOLEAN :
        LET w1 == [web EXCEPT !.task.task_status = "ERROR",
                              !.task.error_message = web.err]
        IN  IF ~web.has_task
            THEN /\ web' = web
                 /\ pc' = "task_returned"
            ELSE IF save_ok
            THEN /\ web' = save(w1, all_fields)
                 /\ pc' = "task_returned"
            ELSE /\ web' = w1
                 /\ pc' = "task_raised"
    /\ UNCHANGED task_frame

NextTask ==
    \/ TaskStart
    \/ TaskRead
    \/ TaskEncode
    \/ TaskDecode
    \/ TaskComplete
    \/ TaskExcept

SpecTask == InitTask /\ [][NextTask]_vars

(***************************************************************************)
(* Properties.                                                             *)
(***************************************************************************)
\* extract has returned
Extracted == pc = "extracted"

\* embed has returned or raised
Embedded == embed_ret.status # "none"

\* every sample of x is zero
IsSilence(x) == \A n \in 1..Len(x) : x[n] = 0

\* the CRC-8 recomputed over the 4 big-endian bytes of the decoded payload
\* equals the 8 decoded CRC bits
CrcMatches(b) == crc8(to_bytes4(b.extracted_id)) = b.extracted_crc

\* C1: bit-level round trip.  For a valid id, the 70 bits embed builds
\* (32-bit (1 << 28) | id MSB first, CRC-8 bits, Hamming(7,4), interleaved),
\* received without bit errors and passed through de-interleaving, Hamming
\* decoding, the CRC check and the version strip, give exactly the id.
C1_BitRoundTrip ==
    (pc = "frame_checked" /\ errs = {} /\ perrs = {})
        => /\ Len(word) = 70
           /\ SubSeq(data, 1, 4) = << 0, 0, 0, 1 >>
           /\ bits_to_int(SubSeq(data, 5, 32)) = watermark_id
           /\ result.ret = watermark_id

C1_Witness ==
    /\ pc = "frame_checked"
    /\ errs = {}
    /\ perrs = {}
    /\ watermark_id = 123456789
    /\ result.ret = 123456789

\* C2, as the claim states it: extract on an all-zero signal in which the
\* payload window fits returns not-found.  The code returns the id 0.
C2_SilenceNotFound ==
    (Extracted /\ IsSilence(rx) /\ extract_ret.window_fits)
        => extract_ret.ret = None

\* C2, what the code does: on silence every correlation is 0, all 70 bits
\* demodulate to 0, the decoded payload and CRC are 0, crc8 of four zero
\* bytes is 0, and extract returns content id 0.
C2_SilenceReturnsZero ==
    /\ Extracted
    /\ Len(rx) >= 86 * chip_rate
    /\ IsSilence(rx)
    /\ extract_ret.window_fits
    /\ extract_ret.raw_bits = zeros(70)
    /\ extract_ret.ret = 0

\* C3: CRC gate.  When the payload window fits, extract does not raise, and
\* it returns an id if and only if the recomputed CRC-8 equals the decoded
\* CRC bits; on a mismatch it returns not-found.
C3_CrcGate ==
    (Extracted /\ extract_ret.window_fits)
        => /\ ~extract_ret.raised
           /\ Len(extract_ret.bits.decoded_bits) = 40
           /\ (extract_ret.ret # None) <=> CrcMatches(extract_ret.bits)

C3_Witness ==
    /\ Extracted
    /\ extract_ret.window_fits
    /\ embed_ret.status = "ok"
    /\ errs = {0, 1}
    /\ ~CrcMatches(extract_ret.bits)
    /\ extract_ret.ret = None

\* C4: embed rejects every id >= 2^28 with the invalid-id error whatever the
\* host, leaving the host as it was, and accepts every id below 2^28 on a
\* host of at least 102 * chip_rate samples.
C4_InvalidId ==
    Embedded
        => /\ (watermark_id >= 268435456)
                => (embed_ret.status = "InvalidId" /\ audio = audio_before)
           /\ (watermark_id < 268435456 /\ Len(audio_before) >= 102 * chip_rate)
                => embed_ret.status = "ok"

C4_Witness ==
    /\ pc = "embedded"
    /\ watermark_id = 536870911
    /\ Len(audio_before) = 102 * chip_rate - 1
    /\ embed_ret.status = "InvalidId"
    /\ audio = audio_before

\* C5: for a valid id embed fails with the host-too-short error if and only
\* if len(host) < 102 * chip_rate; the frame is 16 preamble + 70 payload +
\* 16 trailer bits, so 102 * chip_rate samples are needed; a failing call
\* leaves the host as it was.
C5_HostTooShort ==
    (Embedded /\ watermark_id < 268435456)
        => /\ (embed_ret.status = "HostTooShort")
                <=> (Len(audio_before) < 102 * chip_rate)
           /\ embed_ret.needed = 102 * chip_rate
           /\ Len(full_message_bits(watermark_id)) = 102
           /\ SubSeq(full_message_bits(watermark_id), 1, 16) = preamble_bits
           /\ SubSeq(full_message_bits(watermark_id), 87, 102) = preamble_bits
           /\ (embed_ret.status = "HostTooShort") => (audio = audio_before)

C5_Witness ==
    /\ pc = "embedded"
    /\ chip_rate = 2
    /\ watermark_id = 123456789
    /\ Len(audio_before) = 203
    /\ embed_ret.status = "HostTooShort"
    /\ audio = audio_before

\* C6: a successful embed returns an array of the host's length that equals
\* the host at every index >= 102 * chip_rate, and leaves the host array
\* itself unchanged.
C6_FrameEffect ==
    (Embedded /\ embed_ret.status = "ok")
        => /\ Len(embed_ret.audio) = Len(audio_before)
           /\ \A n \in 1..Len(audio_before) :
                (n > 102 * chip_rate) => (embed_ret.audio[n] = audio_before[n])
           /\ audio = audio_before

C6_Witness ==
    /\ pc = "embedded"
    /\ embed_ret.status = "ok"
    /\ Len(audio_before) > 102 * chip_rate
    /\ ~IsSilence(SubSeq(audio_before, 1, 102 * chip_rate))
    /\ SubSeq(embed_ret.audio, 1, 102 * chip_rate)
         # SubSeq(audio_before, 1, 102 * chip_rate)
    /\ audio = audio_before

C8_SingleErrorCorrected ==
    (pc = "fec_decoded" /\ Cardinality(errs) <= 1)
        => result.decoded_bits = data

C8_Witness ==
    /\ pc = "fec_decoded"
    /\ data = << 1, 0, 1, 1 >>
    /\ errs = {6}
    /\ word # encode_hamming(data)
    /\ result.decoded_bits = data

\* C9: for a valid id, flipping one of the 32 decoded payload bits while
\* the 8 decoded CRC bits stay as embedded makes the CRC comparison fail:
\* the gate returns not-found.
C9_PayloadFlipDetected ==
    (pc = "frame_checked" /\ Cardinality(perrs) = 1
        /\ deinterleave_decode(word) = data)
        => result.ret = None

C9_Witness ==
    /\ pc = "frame_checked"
    /\ watermark_id = 123456789
    /\ errs = {}
    /\ perrs = {0}
    /\ SubSeq(result.decoded_bits, 33, 40) = SubSeq(data, 33, 40)
    /\ result.ret = None

\* C10: an id extract returns is the decoded 32-bit payload without its
\* upper 4 bits, so it lies in [0, 2^28).
C10_VersionStripped ==
    (Extracted /\ extract_ret.ret # None)
        => /\ extract_ret.ret
                = bits_to_int(SubSeq(extract_ret.bits.decoded_bits, 5, 32))
           /\ extract_ret.ret >= 0
           /\ extract_ret.ret < 268435456

C10_Witness ==
    /\ Extracted
    /\ extract_ret.ret = 268435455
    /\ SubSeq(extract_ret.bits.decoded_bits, 1, 4) = << 0, 0, 0, 1 >>

\* the samples process_stream has read from its input stream
stream_consumed == Len(audio) - Len(concat_all(stream_in))

\* the frames that left the buffer so far
stream_frames == (stream_consumed - Len(buffer)) \div chunk_size(chip_rate)

StreamPcs == {"stream_for", "stream_while", "stream_raised", "stream_done"}

\* C11, as the claim states it: each time the buffer holds at least
\* 86 * chip_rate samples, process_stream takes a frame of that size, embed
\* watermarks it, the embedded frame is yielded and the rest stays in the
\* buffer; the hand-off does not raise.
C11_HandOffCompletes ==
    (pc \in StreamPcs /\ pc # "stream_done")
        => /\ pc # "stream_raised"
           /\ Len(stream_out) = stream_frames
           /\ \A k \in 1..Len(stream_out) :
                stream_out[k] =
                    embed(slice(audio, (k - 1) * chunk_size(chip_rate),
                                k * chunk_size(chip_rate)),
                          watermark_id, chip_rate, FALSE).audio
           /\ buffer = slice(audio, stream_frames * chunk_size(chip_rate),
                             stream_consumed)

\* C11, what the code does: the frame of 86 * chip_rate samples is shorter
\* than the 102 * chip_rate samples embed needs, so embed raises the
\* host-too-short error for a valid id; nothing is yielded, and the frame
\* has already left the buffer.
C11_HandOffRaises ==
    /\ pc = "stream_raised"
    /\ id_is_valid(watermark_id)
    /\ embed_ret.status = "HostTooShort"
    /\ embed_ret.needed = 102 * chip_rate
    /\ stream_out = << >>
    /\ stream_frames = 1
    /\ Len(buffer) = 4 * chip_rate

\* C12, as the claim states it: when process_stream is over, the yielded
\* chunks have in total as many samples as the input chunks, and the k-th
\* yielded frame has the 86 * chip_rate samples of the k-th input frame.
C12_OutputCoversInput ==
    (pc \in {"stream_done", "stream_raised"})
        => /\ Len(concat_all(stream_out)) = Len(audio)
           /\ \A k \in 1..(Len(audio) \div chunk_size(chip_rate)) :
                /\ k <= Len(stream_out)
                /\ Len(stream_out[k]) = chunk_size(chip_rate)

\* C12, what the code does: a stream of two chunks that holds a frame ends
\* in the exception of embed, the consumer has received no sample, and the
\* second chunk is never read.
C12_OutputLost ==
    /\ pc = "stream_raised"
    /\ Len(audio) = 2 * chunk_size(chip_rate)
    /\ Len(stream_in) = 1
    /\ stream_out = << >>
    /\ buffer = << >>

\* C13, as the claim states it: an explicit seed (0 included) is the seed
\* and the key is ignored; otherwise, when a key string is given, the seed
\* is the first 4 bytes of SHA-256(key) read big-endian; otherwise it is 42.
C13_SeedSelection ==
    (pc \in {"built", "rebuilt"})
        => seed = IF ctor.seed_given THEN u32_of_int(ctor.seed)
                  ELSE IF ctor.key_given
                       THEN from_bytes_big(sha256_first4(ctor.key))
                       ELSE u32_of_int(42)

\* C13, what the code does: DeepSeal(key="") tests "if key:", which is
\* false for the empty string, and takes the public default seed 42 and
\* not the first bytes of SHA-256("") = e3 b0 c4 42.
C13_EmptyKeyDefaultSeed ==
    /\ pc \in {"built", "rebuilt"}
    /\ ~ctor.seed_given
    /\ ctor.key_given
    /\ ctor.key = ""
    /\ seed = << 0, 42 >>
    /\ seed # from_bytes_big(sha256_first4(""))

\* C14: generate_pn_sequence(length) returns exactly length values, each
\* -1 or +1; two calls with the same seed and the same length return the
\* same sequence, whatever object they are made on and whatever was called
\* before; and a call leaves self.rng as it was.
C14_PnDeterministic ==
    \A i \in 1..Len(pn_calls) :
        LET c == pn_calls[i]
        IN  /\ Len(c.out) = c.length
            /\ \A n \in 1..Len(c.out) : c.out[n] \in {-1, 1}
            /\ c.rng_after = c.rng_before
            /\ c.rng_after = 0
            /\ \A j \in 1..Len(pn_calls) :
                (pn_calls[j].seed = c.seed /\ pn_calls[j].length = c.length)
                    => pn_calls[j].out = c.out

\* two calls of the same length on one object built with key "secret_A",
\* both returning the sequence of that key
C14_Witness ==
    /\ Len(pn_calls) = 2
    /\ pn_calls[1].ctor = pn_calls[2].ctor
    /\ pn_calls[1].ctor.key = "secret_A"
    /\ ~pn_calls[1].ctor.seed_given
    /\ pn_calls[1].seed = << 24020, 41785 >>
    /\ pn_calls[1].length = MaxPnLen
    /\ pn_calls[2].length = MaxPnLen
    /\ pn_calls[1].out = pn_calls[2].out
    /\ rng = 0

\* C15: embed and extract running together on one DeepSeal object, their
\* steps interleaved in any way, each return what they returned when run
\* alone; the fields of the object are never written, and the array both
\* were given is never written.
C15_ConcurrentCallsIndependent ==
    (pc = "threads" /\ thr.phase = "both")
        => /\ (thr.a_pc = "done" => thr.a_ret = thr.ref_a)
           /\ (thr.b_pc = "done" => thr.b_ret = thr.ref_b)
           /\ instance_fields = thr.inst0
           /\ audio = thr.x0

\* both calls have returned: embed returned a new array, and extract went
\* through two passes of its speed loop and demodulated 70 bits
C15_Witness ==
    /\ pc = "threads"
    /\ thr.phase = "both"
    /\ thr.a_pc = "done"
    /\ thr.b_pc = "done"
    /\ thr.a_ret.status = "ok"
    /\ thr.a_ret.audio # audio
    /\ thr.b_ret.window_fits
    /\ Len(thr.b_ret.raw_bits) = 70
    /\ thr.b_st.passes = 2


\* C16: encode_hamming raises exactly for the inputs whose length is not a
\* multiple of 4 and returns 7*len/4 bits for the others;
\* SystematicFEC.decode_hamming raises exactly for the inputs whose length is
\* not a multiple of 7 and returns 4*len/7 bits for the others.
C16_LengthContract ==
    /\ pc = "len_encoded" =>
        /\ result.raised <=> (Len(data) % 4 # 0)
        /\ ~result.raised => Len(result.out) = (7 * Len(data)) \div 4
    /\ pc = "len_decoded" =>
        /\ result.raised <=> (Len(data) % 7 # 0)
        /\ ~result.raised => Len(result.out) = (4 * Len(data)) \div 7

\* both calls were made on the empty bit string, a multiple of 4 and of 7,
\* and raised instead of returning no bits
C16_EmptyInputRaises ==
    /\ pc \in {"len_encoded", "len_decoded"}
    /\ data = << >>
    /\ result.raised


\* C17: coarse sync searches the first 32 * chip_rate + 2 * sample_rate
\* samples of the pre-processed input, or all of it if it is shorter, for the
\* sample rate the object was built with; the start index it finds lies in
\* 0 .. search_len - 16 * chip_rate.
C17_SearchWindow ==
    pc \in {"speed_loop", "final", "extracted"} =>
        LET search_len == Min2(st.lens[1], 32 * chip_rate + 2 * sample_rate)
        IN  /\ st.search_len = search_len
            /\ search_len >= 16 * chip_rate =>
                st.start_idx \in 0..(search_len - 16 * chip_rate)

\* an object built with a small sample rate searched a whole recording that
\* is longer than 32 * chip_rate + 2 * sample_rate samples, and found a start
\* index beyond search_len - 16 * chip_rate
C17_SearchedBeyond ==
    /\ pc = "speed_loop"
    /\ st.passes = 0
    /\ sample_rate = SmallSampleRate
    /\ Len(rx) >= 102 * chip_rate
    /\ st.search_len = Len(rx)
    /\ st.search_len > 32 * chip_rate + 2 * sample_rate
    /\ st.start_idx > 2 * sample_rate + 16 * chip_rate


\* C18: when a pass of the speed loop resamples, the resampled audio has
\* round(old_len * speed) samples, speed being 86 * chip_rate over the
\* measured distance, and total_speed is multiplied by that speed (so the
\* start index predicted for the next correlation is start_idx times the
\* product of the speeds).
C18_ResampledLength ==
    ~st.raised =>
        \A k \in 1..st.resamples :
            LET nominal_dist == 86 * chip_rate
                prod_before == IF k = 1 THEN 1 ELSE st.dists[1]
                prod_after == prod_before * st.dists[k]
            IN  /\ st.lens[k + 1] = (2 * st.lens[k] * nominal_dist + st.dists[k])
                                        \div (2 * st.dists[k])
                /\ k = st.resamples =>
                    st.speed_num * prod_after
                        = st.speed_den * nominal_dist * (IF k = 1 THEN 1 ELSE nominal_dist)

\* a pass resampled to int(old_len * speed) samples where old_len * speed has
\* a fractional part above one half
C18_TruncatedLength ==
    /\ st.resamples >= 1
    /\ ~st.raised
    /\ LET a == st.lens[1] * 86 * chip_rate
           d == st.dists[1]
       IN  /\ st.lens[2] = a \div d
           /\ 2 * (a % d) > d


\* C19: the speed loop of extract ends after at most 2 passes and at most 2
\* resamplings, without raising; a pass on which no trailer is accepted, or
\* on which the estimated speed is within 1e-4 of 1, ends the loop without
\* resampling, and if that pass is pass 0 the audio that is demodulated is the
\* pre-processed input and total_speed is 1.
C19_LoopTerminates ==
    /\ st.passes <= 2
    /\ st.resamples <= 2
    /\ ~st.raised
    /\ pc = "speed_loop" => st.passes < 2 /\ ~st.done
    /\ Len(st.trailer_accepted) = st.passes
    /\ \A k \in 1..st.passes :
        ~st.trailer_accepted[k] => k = st.passes /\ st.done
    /\ st.resamples = IF st.done THEN st.passes - 1 ELSE st.passes
    /\ pc \in {"speed_loop", "final", "extracted"} =>
        Len(st.lens) = st.resamples + 1
    /\ (pc \in {"speed_loop", "final", "extracted"} /\ st.done /\ st.passes = 1) =>
        /\ st.current_audio = IF telecom_mode
                              THEN normalize_signal(apply_bandpass(rx))
                              ELSE preemphasis(rx)
        /\ st.den = 1
        /\ st.speed_num = 1
        /\ st.speed_den = 1
    /\ pc = "extracted" =>
        /\ ~extract_ret.raised
        /\ extract_ret.final_len = st.lens[Len(st.lens)]

\* extract has returned after a loop that stopped on pass 0 without
\* resampling: the trailer was accepted at the nominal distance (speed 1)
C19_Witness ==
    /\ pc = "extracted"
    /\ st.passes = 1
    /\ st.done
    /\ st.trailer_accepted = << TRUE >>
    /\ st.resamples = 0
    /\ Len(rx) >= 102 * chip_rate
    /\ extract_ret.final_len = Len(rx)


\* C20: with D0 = 86 * chip_rate, the distance from the start to the trailer
\* position reported on pass 0 (corrected for the offset of the middle-50%
\* template) differs from D0 by at most 10% of D0, and the one reported on
\* pass 1 by at most 1% of D0.
C20_TrailerRange ==
    LET D0 == 86 * chip_rate
    IN  \A k \in 1..Len(st.dists) :
            /\ k = 1 => 10 * Abs(st.dists[k] - D0) <= D0
            /\ k = 2 => 100 * Abs(st.dists[k] - D0) <= D0

\* pass 0 accepted a trailer farther than 10% of D0 from its nominal place
C20_BeyondTenPercent ==
    /\ pc \in {"speed_loop", "final", "extracted"}
    /\ Len(st.dists) >= 1
    /\ st.trailer_accepted[1]
    /\ 10 * Abs(st.dists[1] - 86 * chip_rate) > 86 * chip_rate


\* C21: extract returns not-found, without raising, whenever
\* final_start_index + 86 * chip_rate exceeds the length of the (possibly
\* resampled) audio; final_start_index is never negative, and whenever bits
\* are demodulated the payload slice lies inside that audio and has exactly
\* 70 * chip_rate samples.
C21_PayloadWindow ==
    pc = "extracted" =>
        /\ ~extract_ret.raised
        /\ extract_ret.final_start_index >= 0
        /\ extract_ret.final_start_index + 86 * chip_rate > extract_ret.final_len =>
            /\ extract_ret.ret = None
            /\ extract_ret.raw_bits = << >>
        /\ Len(extract_ret.raw_bits) > 0 =>
            /\ extract_ret.final_start_index + 86 * chip_rate <= extract_ret.final_len
            /\ extract_ret.payload_len = 70 * chip_rate

\* extract returned not-found on an audio that ends inside the payload window
\* of a start found after its first sample
C21_Witness ==
    /\ pc = "extracted"
    /\ extract_ret.final_start_index > 0
    /\ extract_ret.final_start_index + 16 * chip_rate < extract_ret.final_len
    /\ extract_ret.final_start_index + 86 * chip_rate > extract_ret.final_len
    /\ extract_ret.ret = None
    /\ ~extract_ret.raised


\* C22: the de-interleaving of extract is the exact inverse of the
\* interleaving of embed: both use the one permutation of 70 positions drawn
\* from the constant seed 0xDEADBEEF, inv_indices undoes perm_indices
\* position by position, and a 70-bit vector that is interleaved and then
\* de-interleaved is itself again.
C22_DeinterleaveInverts ==
    /\ Len(perm_indices) = 70
    /\ Len(inv_indices) = 70
    /\ \A k \in 1..70 : perm_indices[inv_indices[k] + 1] = k - 1
    /\ pc = "frame_coded" =>
        /\ Len(word) = 70
        /\ take(take(word, perm_indices), inv_indices) = word
        /\ errs = {} => take(word, inv_indices) = encode_hamming(data)

\* a frame with bit errors, which the permutation does not leave in place,
\* was interleaved and de-interleaved
C22_Witness ==
    /\ pc = "frame_coded"
    /\ watermark_id = 123456789
    /\ errs # {}
    /\ take(word, perm_indices) # word
    /\ take(take(word, perm_indices), inv_indices) = word


\* C23: for every nibble and every two distinct bit positions,
\* SystematicFEC.decode_hamming of the codeword with those two bits flipped
\* raises nothing and returns four bits that differ from the nibble: a
\* two-bit error in a block is not detected by the FEC.
C23_TwoFlipsMiscorrected ==
    (pc = "fec_decoded" /\ Cardinality(errs) = 2) =>
        /\ ~decode_raises(word)
        /\ Len(result.decoded_bits) = 4
        /\ result.decoded_bits # data
        /\ syndrome_val(word) \in DOMAIN syndrome_map
        /\ encode_nibble(result.decoded_bits)
               = FlipAt(word, syndrome_map[syndrome_val(word)] + 1)

\* a codeword with a data bit and a parity bit flipped was decoded
C23_Witness ==
    /\ pc = "fec_decoded"
    /\ errs = {1, 5}
    /\ data = << 1, 0, 1, 1 >>
    /\ result.decoded_bits # data


C25_BitCodecRoundTrip ==
    /\ pc \in {"codec_bits", "codec_back"} =>
        /\ Len(word) = result.num_bits
        /\ \A k \in 1..result.num_bits :
            /\ word[k] \in {0, 1}
            /\ word[k] = 1 <=>
                (result.val % pow2[result.num_bits - k + 2])
                    >= pow2[result.num_bits - k + 1]
    /\ pc = "codec_back" => result.back = result.val

\* the value of the unit test, 0b101010 on 6 bits, went through both
\* conversions
C25_Witness ==
    /\ pc = "codec_back"
    /\ result.val = 42
    /\ result.num_bits = 6
    /\ word = << 1, 0, 1, 0, 1, 0 >>
    /\ result.back = 42


\* C26, as the claim states it: FEC.decode_hamming of the base class, given a
\* block that FEC.encode_hamming produced and in which at most one bit was
\* flipped, returns the four data bits.
C26_BaseDecodeCorrects ==
    (pc = "base_decoded" /\ Cardinality(errs) <= 1) =>
        result.decoded_bits = data

\* C26, what the code does: the loop of FEC.decode_hamming ends in pass and
\* appends nothing, so the call returns an empty array, even for a codeword
\* without any error.
C26_BaseDecodeEmpty ==
    /\ pc = "base_decoded"
    /\ errs = {}
    /\ data = << 1, 0, 1, 1 >>
    /\ word = << 1, 0, 0, 1, 0, 1, 1 >>
    /\ result.decoded_bits = << >>


\* C27, as the claim states it: each time process_stream asks its upstream
\* for the next chunk, and when it finishes, the buffer holds fewer than
\* 86 * chip_rate samples, and the samples received so far are, in input
\* order and each exactly once, the emitted chunks followed by the buffer.
C27_BufferInvariant ==
    pc \in {"stream_for", "stream_done"} =>
        /\ Len(buffer) < chunk_size(chip_rate)
        /\ concat_all(stream_out) \o buffer = SubSeq(audio, 1, stream_consumed)

\* C27, what the code does: the residual is yielded at the stream end and
\* stays in self.buffer, so when process_stream finishes its samples are in
\* an emitted chunk and in the buffer.
C27_ResidualKept ==
    /\ pc = "stream_done"
    /\ stream_calls = 1
    /\ buffer # << >>
    /\ buffer = audio
    /\ stream_out = << buffer >>


\* C28, as the claim states it: when process_stream has run to completion
\* the buffer of the injector is empty, and a second process_stream call on
\* the same injector emits only samples of the second stream (the negative
\* ones).
C28_NothingCarriedOver ==
    /\ pc = "stream_done" => buffer = << >>
    /\ stream_calls = 2 =>
        \A k \in 1..Len(stream_out) :
            \A n \in 1..Len(stream_out[k]) : stream_out[k][n] < 0

\* C28, what the code does: the residual of the first stream stays in
\* self.buffer, and the second call, on a stream of one chunk that does not
\* fill a frame, emits it again in front of the samples of its own stream.
C28_FirstResidualAgain ==
    /\ pc = "stream_done"
    /\ stream_calls = 2
    /\ Len(audio) > 0
    /\ Len(stream_out) = 1
    /\ Len(stream_out[1]) > Len(audio)
    /\ stream_out[1][1] > 0
    /\ SubSeq(stream_out[1], Len(stream_out[1]) - Len(audio) + 1,
              Len(stream_out[1])) = audio


\* C29: whenever a pass of the speed loop computes a speed estimate, the
\* measured distance trailer_idx - start_idx is strictly positive (at least
\* 86 * chip_rate minus the search radius minus the 4 * chip_rate offset of
\* the pass-0 template), so the estimate is no division by zero and is not
\* negative, and the loop does not raise.
C29_DistancePositive ==
    /\ ~st.raised
    /\ \A k \in 1..Len(st.measured) :
        /\ st.measured[k] > 0
        /\ st.measured[k] >= 86 * chip_rate - (86 * chip_rate) \div 10
                                 - 4 * chip_rate

\* both passes of a loop computed a speed estimate, the first from a trailer
\* found before its nominal place
C29_Witness ==
    /\ pc \in {"speed_loop", "final", "extracted"}
    /\ Len(st.measured) = 2
    /\ st.measured[1] < 86 * chip_rate
    /\ st.passes = 2


\* C30, as the claim states it: in every run of process_stego_task, runs in
\* which a step or a save fails included, the stored task_status goes from
\* PENDING to PROCESSING and then to exactly one of COMPLETED and ERROR (which
\* it has reached when the run is over); completed_at is stored only with
\* status COMPLETED and error_message only with status ERROR; the saves of
\* the worker queue no further run.
C30_TaskLifecycle ==
    pc \in {"task_queued", "task_read", "task_encode", "task_decode",
            "task_finish", "task_except", "task_returned", "task_raised"} =>
        /\ \/ web.history = << "PENDING" >>
           \/ web.history = << "PENDING", "PROCESSING" >>
           \/ web.history = << "PENDING", "PROCESSING", "COMPLETED" >>
           \/ web.history = << "PENDING", "PROCESSING", "ERROR" >>
        /\ pc \in {"task_returned", "task_raised"} => Len(web.history) = 3
        /\ web.row.completed_at # "NULL" => web.row.task_status = "COMPLETED"
        /\ web.row.error_message # "NULL" => web.row.task_status = "ERROR"
        /\ web.queue = IF pc = "task_queued" THEN 1 ELSE 0

\* C30, what the code does when the save of line 73 fails and the save of the
\* handler succeeds: the handler saves the whole task object, on which
\* completed_at was already set, so the row has status ERROR and a
\* completed_at.
C30_ErrorWithCompletedAt ==
    /\ pc = "task_returned"
    /\ web.history = << "PENDING", "PROCESSING", "ERROR" >>
    /\ web.row.task_status = "ERROR"
    /\ web.row.error_message = "save failed"
    /\ web.row.completed_at = "now"

====
